---- MODULE Spec2Model ----
(***************************************************************************)
(* A model of the mosaic / co-addition engine of eris_jhchen_utils.py:     *)
(* find_combined_wcs (the combined-frame solver) and data_combine (the     *)
(* per-exposure reprojection and weighted accumulation).                   *)
(*                                                                         *)
(* Numbers.  Pixel coordinates, reference pixels and pixel shifts are      *)
(* kept in HALF PIXELS (the integer 3 is the pixel coordinate 1.5), and    *)
(* world coordinates in half world units, so that ranges*0.5 and half      *)
(* pixel shifts are exact integers.  A coordinate mapping is the linear    *)
(* (small field) form of a FITS WCS with a diagonal CD matrix:             *)
(*     world = crval + cd * (pixel + 1 - crpix)     (pixel is 0-based)     *)
(* which in half units reads  W = crval + cd * (P + 2 - crpix).            *)
(***************************************************************************)
EXTENDS Integers, Sequences, FiniteSets, TLC

VARIABLES
    mode,           \* which entry point the caller uses: "fcw" or "dc"
    pc,             \* position of the caller
    wcs_list,       \* the caller's list of mapping objects (mutable objects)
    pixel_shifts,   \* the pixel_shifts argument: [given, v]
    wcs_combined,   \* what the last call of find_combined_wcs returned
    err,            \* the exception the last call raised, "" when none
    entry_list,     \* the caller's mappings as they were when the last call began
    prev,           \* outcome of the call before the last one: [done, out, err]
    calls,          \* number of calls of find_combined_wcs made so far
    image_list,     \* data_combine: the exposure files [wcs, ndim, data, mask]
    opts,           \* data_combine: the other arguments of the call
    loop_i,         \* data_combine: the loop variable i, exposures done so far
    data_combined,  \* data_combine: the accumulated data array
    coverage_combined, \* data_combine: the accumulated coverage array
    saved,          \* data_combine: the file written, NoFile when none
    headers,        \* the exposure headers compute_eris_offset and
                    \* compute_weighting_eris read
    additional_drifts, \* compute_eris_offset: the argument [kind, v]
    array_offset,   \* compute_eris_offset: the array of pixel shifts
    weights,        \* compute_weighting_eris: what it returned
    fm_image,       \* fill_mask: the caller's image array
    fm_mask,        \* fill_mask: the caller's mask array
    image_filled,   \* fill_mask: the array being filled
    fill_entry,     \* fill_mask: the caller's arrays when the call began
    overwrite,      \* the overwrite argument of the quick tools
    excludes,       \* quick_combine: the excludes argument [given, v]
    obs_dirs,       \* quick_combine: the OB directories found under datadir
    qc_i,           \* quick_combine: the OB directories gone through so far
    ob_calls,       \* quick_combine: the per-OB combinations made, the
                    \* arguments of each
    ob_image_list,  \* quick_combine: image_list, the per-OB products
    image_exp_list, \* quick_combine: the exposure time recorded per product
    ob_queue,       \* run_eris_pipeline: the OBs in the order of the loops
    pools,          \* run_eris_pipeline: the calibration pools on disk
    daily_id_calib_pool, \* run_eris_pipeline: the local variable [bound, v]
    calib_returned, \* run_eris_pipeline: what get_daily_calib gave per OB
    pipe_i,         \* run_eris_pipeline: the OBs gone through so far
    jitter_runs     \* run_eris_pipeline: the calls of auto_jitter made

fcw_vars == <<entry_list, prev, calls>>
dc_vars == <<image_list, opts, loop_i, data_combined, coverage_combined,
             saved>>

eris_vars == <<headers, additional_drifts, array_offset, weights>>
fill_vars == <<fm_image, fm_mask, image_filled, fill_entry>>
tool_vars == <<overwrite, excludes, obs_dirs, qc_i, ob_calls, ob_image_list,
               image_exp_list, ob_queue, pools, daily_id_calib_pool,
               calib_returned, pipe_i, jitter_runs>>

vars == <<mode, pc, wcs_list, pixel_shifts, wcs_combined, err, entry_list,
          prev, calls, image_list, opts, loop_i, data_combined,
          coverage_combined, saved, headers, additional_drifts,
          array_offset, weights, fm_image, fm_mask, image_filled,
          fill_entry, overwrite, excludes, obs_dirs, qc_i, ob_calls,
          ob_image_list, image_exp_list, ob_queue, pools,
          daily_id_calib_pool, calib_returned, pipe_i, jitter_runs>>

----------------------------------------------------------------------------
(* Bounds of the model *)

\* the largest number of exposures / mappings in one call
MaxN == 2

\* the largest length of an array handed to fill_mask
MaxSide == 3

----------------------------------------------------------------------------
(* Small helpers *)

Reverse(s) == [k \in 1..Len(s) |-> s[Len(s) + 1 - k]]

\* integer quotient for a divisor of either sign (floor of a / b)
Quot(a, b) == IF b > 0 THEN a \div b ELSE (0 - a) \div (0 - b)

\* np.round of the value D/2 given in half units: round half to even
RoundHalf(D) ==
    IF D % 2 = 0 THEN D \div 2
    ELSE LET k == (D - 1) \div 2
         IN  IF k % 2 = 0 THEN k ELSE k + 1

Abs(x) == IF x < 0 THEN 0 - x ELSE x

None == [given |-> FALSE, v |-> <<>>]
Some(x) == [given |-> TRUE, v |-> x]

\* "no mapping": what the caller holds when a call raised
NoWcs == [naxis |-> 0, crpix |-> <<>>, crval |-> <<>>, cd |-> <<>>,
          array_shape |-> <<>>]

----------------------------------------------------------------------------
(* Coordinate mappings: astropy.wcs.WCS restricted to a diagonal CD matrix *)

\* wcs_pix2world(..., 0) along axis a: 0-based pixel -> world
PixelToWorld(w, a, P) == w.crval[a] + w.cd[a] * (P + 2 - w.crpix[a])

\* wcs_world2pix(..., 0) along axis a: world -> 0-based pixel
WorldToPixel(w, a, W) == Quot(W - w.crval[a], w.cd[a]) + w.crpix[a] - 2

\* wcs_utils.pixel_to_pixel(wcs_in, wcs_out, *pixel), along axis a
pixel_to_pixel(wcs_in, wcs_out, a, P) ==
    WorldToPixel(wcs_out, a, PixelToWorld(wcs_in, a, P))

\* wcs_utils.pixel_to_skycoord(x, y, wcs): only the two celestial axes
pixel_to_skycoord(X, Y, w) ==
    <<PixelToWorld(w, 1, X), PixelToWorld(w, 2, Y)>>

----------------------------------------------------------------------------
(* find_combined_wcs *)

\* line 810: image_wcs.wcs.crpix -= pixel_shifts[i], on the caller's object
ShiftCrpix(w, s) ==
    [w EXCEPT !.crpix = [a \in 1..w.naxis |-> w.crpix[a] - s[a]]]

\* lines 807-810: the list after the loop has shifted every mapping in place
ShiftedList(L, S) ==
    IF S.given THEN [i \in 1..Len(L) |-> ShiftCrpix(L[i], S.v[i])] ELSE L

\* lines 796-801: the two corner pixels, taken from the FIRST mapping's
\* shape: corner 1 is (0,0[,0]), corner 2 is first_shape[::-1] - 1
corner_pixel_coords(first_wcs, c, a) ==
    IF c = 1 THEN 0
    ELSE 2 * (first_wcs.array_shape[first_wcs.naxis + 1 - a] - 1)

\* lines 807-816: corner c of mapping i converted into frame 0, axis a
corners(L, i, c, a) ==
    pixel_to_pixel(L[i], L[1], a, corner_pixel_coords(L[1], c, a))

\* the collected corner coordinates along axis a
CornerSet(L, a) == {corners(L, i, c, a) : i \in 1..Len(L), c \in 1..2}

\* lines 820-822
low_boundaries(L, a) ==
    LET cs == CornerSet(L, a)
    IN  CHOOSE m \in cs : \A x \in cs : m <= x

up_boundaries(L, a) ==
    LET cs == CornerSet(L, a)
    IN  CHOOSE m \in cs : \A x \in cs : m >= x

\* ranges with the inclusive "+ 1" forgotten
ranges_exclusive(L, a) ==
    RoundHalf(up_boundaries(L, a) - low_boundaries(L, a))

\* line 823: np.round(up - low + 1).astype(int), in whole pixels
ranges(L, a) == RoundHalf(up_boundaries(L, a) - low_boundaries(L, a) + 2)

\* line 824: chan0 = low_boundaries[0]
chan0(L) == low_boundaries(L, 1)

\* line 841
reference_chan(L) ==
    L[1].crval[3] + (L[1].crpix[3] - chan0(L) - 2) * L[1].cd[3]

\* lines 825-850: the combined mapping built from the (shifted) list
CombinedFrom(L) ==
    LET first_wcs == L[1]
        rg  == [a \in 1..first_wcs.naxis |-> ranges(L, a)]
        x0  == ranges(L, 1)     \* ranges[0]*0.5 pixels = ranges[0] half pixels
        y0  == ranges(L, 2)
        sky == pixel_to_skycoord(x0, y0, first_wcs)
    IN  IF first_wcs.naxis = 3
        THEN [first_wcs EXCEPT
                 !.crval = <<sky[1], sky[2], reference_chan(L)>>,
                 !.crpix = <<x0, y0, 2>>,
                 !.array_shape = Reverse(rg)]
        ELSE [first_wcs EXCEPT
                 !.crval = <<sky[1], sky[2]>>,
                 !.array_shape = Reverse(rg)]

\* the length check written as "too few shifts" only
ShiftsMismatch_tooFew(L, S) == S.given /\ Len(S.v) < Len(L)

\* lines 784-787: the check of the shape of the shifts
ShiftsMismatch(L, S) == S.given /\ Len(S.v) # Len(L)

\* lines 796-803: only 2 and 3 axes are handled
UnsupportedNaxis(L) == L[1].naxis \notin {2, 3}

\* the call with the dimension check made after the loop over the mappings
find_combined_wcs_lateCheck(L, S) ==
    IF ShiftsMismatch(L, S)
    THEN [err |-> "ValueError: Pixel_shift does not match", list |-> L,
          out |-> NoWcs]
    ELSE IF UnsupportedNaxis(L)
    THEN [err |-> "ValueError: Unsupport datacube",
          list |-> ShiftedList(L, S), out |-> NoWcs]
    ELSE [err |-> "", list |-> ShiftedList(L, S),
          out |-> CombinedFrom(ShiftedList(L, S))]

\* the whole call: [err, list (the caller's objects afterwards), out]
find_combined_wcs(L, S) ==
    IF ShiftsMismatch(L, S)
    THEN [err |-> "ValueError: Pixel_shift does not match", list |-> L,
          out |-> NoWcs]
    ELSE IF UnsupportedNaxis(L)
    THEN [err |-> "ValueError: Unsupport datacube", list |-> L, out |-> NoWcs]
    ELSE [err |-> "", list |-> ShiftedList(L, S),
          out |-> CombinedFrom(ShiftedList(L, S))]

----------------------------------------------------------------------------
(* Numbers of data_combine.                                                *)
(* A pixel value is [nan, v]: NaN, or the integer v.  Weights and the      *)
(* weighted sums are counted in units of 1/WUnit, so that 1/N is exact.    *)
(* A coverage [nan, v] stands for v + 1e-8: the epsilon of line 1057 is    *)
(* carried implicitly, and v counts the whole units added to it.           *)

RECURSIVE Factorial(_)
Factorial(n) == IF n <= 1 THEN 1 ELSE n * Factorial(n - 1)

WUnit == Factorial(MaxN)

NaN == [nan |-> TRUE, v |-> 0]
Num(x) == [nan |-> FALSE, v |-> x]

Add(a, b) == IF a.nan \/ b.nan THEN NaN ELSE Num(a.v + b.v)
Times(a, k) == IF a.nan THEN NaN ELSE Num(a.v * k)
OneMinus(m) == IF m.nan THEN NaN ELSE Num(1 - m.v)

\* data / coverage: the quotient num / (WUnit * (cov + 1e-8)), kept exact
Quotient(d, c) ==
    IF d.nan \/ c.nan THEN [nan |-> TRUE, num |-> 0, cov |-> 0]
    ELSE [nan |-> FALSE, num |-> d.v, cov |-> c.v]

----------------------------------------------------------------------------
(* Arrays: a cube is a sequence of channels, a channel a sequence of rows  *)
(* (y), a row a sequence of pixels (x); 1-based here, 0-based in numpy.    *)
(* A 2-D image is kept as one channel, with ndim = 2 recorded beside it.   *)

NChan(d) == Len(d)
NY(d) == Len(d[1])
NX(d) == Len(d[1][1])

Idx(d) == {<<c, y, x>> : c \in 1..NChan(d), y \in 1..NY(d), x \in 1..NX(d)}

At(d, p) == d[p[1]][p[2]][p[3]]

\* np.full(shape, fill_value)
Full(nc, ny, nx, val) == [c \in 1..nc |-> [y \in 1..ny |-> [x \in 1..nx |-> val]]]

RECURSIVE SumOver(_, _)
SumOver(S, d) ==
    IF S = {} THEN 0
    ELSE LET p == CHOOSE q \in S : TRUE
         IN  At(d, p) + SumOver(S \ {p}, d)

RECURSIVE SumSqOver(_, _)
SumSqOver(S, d) ==
    IF S = {} THEN 0
    ELSE LET p == CHOOSE q \in S : TRUE
         IN  At(d, p) * At(d, p) + SumSqOver(S \ {p}, d)

\* the k-th smallest of the values of d over the index set S
Kth(S, d, k) ==
    CHOOSE v \in {At(d, p) : p \in S} :
        /\ Cardinality({p \in S : At(d, p) < v}) < k
        /\ Cardinality({p \in S : At(d, p) <= v}) >= k

\* twice the median of d over S (the mean of the two middle values when
\* their number is even)
Median2(S, d) ==
    LET n == Cardinality(S)
    IN  IF n % 2 = 1 THEN 2 * Kth(S, d, (n + 1) \div 2)
        ELSE Kth(S, d, n \div 2) + Kth(S, d, n \div 2 + 1)

----------------------------------------------------------------------------
(* data_combine: the steps applied to one exposure *)

\* the extension made by repeating the last channel of the exposure
FitChannels_edge(arr, nchan, pad) ==
    IF Len(arr) >= nchan THEN SubSeq(arr, 1, nchan)
    ELSE [c \in 1..nchan |-> IF c <= Len(arr) THEN arr[c] ELSE arr[Len(arr)]]

\* lines 1075-1089: cut or zero-pad along the channel axis
FitChannels(arr, nchan, pad) ==
    IF Len(arr) >= nchan THEN SubSeq(arr, 1, nchan)
    ELSE [c \in 1..nchan |->
             IF c <= Len(arr) THEN arr[c]
             ELSE [y \in 1..NY(arr) |-> [x \in 1..NX(arr) |-> pad]]]

\* line 1094: the mask of np.ma.masked_array(data, mask=mask), as the set of
\* masked indices
MaskedSet(mask) == {p \in Idx(mask) : At(mask, p) # 0}

\* one iteration of astropy.stats.sigma_clip: median centre, standard
\* deviation (ddof 0), values beyond sigma deviations become masked
ClipOnce(data, M, sigma) ==
    LET U  == Idx(data) \ M
        n  == Cardinality(U)
        s1 == SumOver(U, data)
        s2 == SumSqOver(U, data)
        m2 == Median2(U, data)
    IN  IF n = 0 THEN M
        ELSE M \cup {p \in U :
                 n * n * (2 * At(data, p) - m2) * (2 * At(data, p) - m2)
                     > 4 * sigma * sigma * (n * s2 - s1 * s1)}

\* lines 1097-1098: sigma_clip(data_masked, sigma=sigma, maxiters=5)
RECURSIVE sigma_clip(_, _, _, _)
sigma_clip(data, M, sigma, maxiters) ==
    IF maxiters = 0 THEN M
    ELSE LET M2 == ClipOnce(data, M, sigma)
         IN  IF M2 = M THEN M ELSE sigma_clip(data, M2, sigma, maxiters - 1)

\* the median of channel c taken over its masked pixels as well
ChannelMedian_withMasked(data, M, c) ==
    Median2({p \in Idx(data) : p[1] = c}, data) \div 2

\* lines 1101-1102: np.ma.median(data_masked, axis=(1,2)) of channel c
ChannelMedian(data, M, c) ==
    LET U == {p \in Idx(data) \ M : p[1] = c}
    IN  IF U = {} THEN 0 ELSE Median2(U, data) \div 2

\* lines 1099-1102: subtract the median of each channel
Bgsub(data, M) ==
    [c \in 1..NChan(data) |->
        LET med == ChannelMedian(data, M, c)
        IN  [y \in 1..NY(data) |-> [x \in 1..NX(data) |-> data[c][y][x] - med]]]

\* filled with the masked values left in place
Filled_keep(data, M) == data

\* line 1103: data_masked.filled(0)
Filled(data, M) ==
    [c \in 1..NChan(data) |-> [y \in 1..NY(data) |-> [x \in 1..NX(data) |->
        IF <<c, y, x>> \in M THEN 0 ELSE data[c][y][x]]]]

\* the mask taken as empty
MaskArray_none(data, M) ==
    [c \in 1..NChan(data) |-> [y \in 1..NY(data) |-> [x \in 1..NX(data) |-> 0]]]

\* line 1104: data_masked.mask as an array of 0 / 1
MaskArray(data, M) ==
    [c \in 1..NChan(data) |-> [y \in 1..NY(data) |-> [x \in 1..NX(data) |->
        IF <<c, y, x>> \in M THEN 1 ELSE 0]]]

\* lines 1106-1113: reproject_adaptive((arr, w_in), w_out, shape_out) for
\* mappings of one pixel scale set a whole number of pixels apart: output
\* pixel q takes the input pixel at the same sky position, and `fill`
\* where the input array has none
Reproject(arr, w_in, w_out, ny, nx, fill) ==
    [c \in 1..NChan(arr) |-> [y \in 1..ny |-> [x \in 1..nx |->
        LET px == pixel_to_pixel(w_out, w_in, 1, 2 * (x - 1))
            py == pixel_to_pixel(w_out, w_in, 2, 2 * (y - 1))
        IN  IF /\ px % 2 = 0 /\ py % 2 = 0
               /\ 0 <= px /\ px <= 2 * (NX(arr) - 1)
               /\ 0 <= py /\ py <= 2 * (NY(arr) - 1)
            THEN Num(arr[c][py \div 2 + 1][px \div 2 + 1])
            ELSE fill]]]

\* reproject_adaptive leaves NaN where the input array has no pixel (its
\* footprint is 0 there)
OutsideFootprint == NaN

\* lines 1066-1113 for exposure k: [err, data, mask] reprojected onto the
\* combined grid
Resampled(img, image_wcs, wcs_out, o) ==
    LET shape == wcs_out.array_shape
        ny    == shape[Len(shape) - 1]
        nx    == shape[Len(shape)]
        data0 == IF img.ndim = 3 THEN FitChannels(img.data, shape[1], 0)
                 ELSE img.data
        mask0 == IF img.ndim = 3 THEN FitChannels(img.mask, shape[1], 0)
                 ELSE img.mask
        M0    == MaskedSet(mask0)
        M     == IF o.sigma_clip THEN sigma_clip(data0, M0, o.sigma, 5) ELSE M0
        data1 == IF o.bgsub THEN Bgsub(data0, M) ELSE data0
    IN  IF o.bgsub /\ img.ndim # 3
        THEN [err |-> "AxisError: axis 2 is out of bounds", data |-> <<>>,
              mask |-> <<>>]
        ELSE [err |-> "",
              data |-> Reproject(Filled(data1, M), image_wcs, wcs_out, ny, nx,
                                 OutsideFootprint),
              mask |-> Reproject(MaskArray(data1, M), image_wcs, wcs_out, ny,
                                 nx, OutsideFootprint)]

\* adding the weighted exposure without its weight
AccumulateData_unweighted(acc, res, w) ==
    [c \in 1..NChan(acc) |-> [y \in 1..NY(acc) |-> [x \in 1..NX(acc) |->
        Add(acc[c][y][x], Times(res[c][y][x], WUnit))]]]

\* line 1114: data_combined += data_reprojected * weighting[i]
AccumulateData(acc, res, w) ==
    [c \in 1..NChan(acc) |-> [y \in 1..NY(acc) |-> [x \in 1..NX(acc) |->
        Add(acc[c][y][x], Times(res[c][y][x], w))]]]

\* line 1116: coverage_combined += (1. - mask_reprojected)
AccumulateCoverage(cov, mres) ==
    [c \in 1..NChan(cov) |-> [y \in 1..NY(cov) |-> [x \in 1..NX(cov) |->
        Add(cov[c][y][x], OneMinus(mres[c][y][x]))]]]

\* line 1119: data_combined / coverage_combined
Divided(acc, cov) ==
    [c \in 1..NChan(acc) |-> [y \in 1..NY(acc) |-> [x \in 1..NX(acc) |->
        Quotient(acc[c][y][x], cov[c][y][x])]]]

\* lines 1060-1062: the weights, in units of 1/WUnit
Weighting(o, n) ==
    IF o.weighting = "given" THEN [k \in 1..n |-> k]
    ELSE [k \in 1..n |-> WUnit \div n]

\* the check of line 1010 written as "too few shifts" only
DcShiftsMismatch_tooFew(images, S) == S.given /\ Len(S.v) < Len(images)

\* lines 1009-1011: the check of the pixel shifts of data_combine
DcShiftsMismatch(images, S) == S.given /\ Len(S.v) # Len(images)

\* lines 1029-1033: the mock mapping moved by the shift of exposure k
MockShifted(wcs_mock, s) ==
    [wcs_mock EXCEPT !.crpix = <<wcs_mock.crpix[1] + s[1],
                                 wcs_mock.crpix[2] + s[2],
                                 wcs_mock.crpix[3]>>]

\* lines 1014-1044: the list of mappings data_combine works with
DcWcsList(images, S, ignore_wcs) ==
    IF ignore_wcs
    THEN IF S.given
         THEN [k \in 1..Len(images) |-> MockShifted(images[1].wcs, S.v[k])]
         ELSE [k \in 1..Len(images) |-> images[1].wcs]
    ELSE [k \in 1..Len(images) |-> images[k].wcs]

----------------------------------------------------------------------------
(* The inputs a caller of find_combined_wcs draws from *)

\* the CD diagonal shared by the exposures of one run: RA runs backwards
CdOf(a) == <<0 - 2, 2, 3, 1>>[a]

\* mapping 0: reference pixel, reference value and size per axis
FirstAxis(a) ==
    IF a = 1 THEN [crpix : {2, 6}, crval : {0}, size : {2, 3}]
    ELSE IF a = 2 THEN [crpix : {4}, crval : {8}, size : {2}]
    ELSE IF a = 3 THEN [crpix : {2, 4}, crval : {30}, size : {3}]
    ELSE [crpix : {2}, crval : {0}, size : {1}]

MkWcs(n, ax) ==
    [naxis |-> n,
     crpix |-> [a \in 1..n |-> ax[a].crpix],
     crval |-> [a \in 1..n |-> ax[a].crval],
     cd    |-> [a \in 1..n |-> CdOf(a)],
     array_shape |-> Reverse([a \in 1..n |-> ax[a].size])]

FirstWcs(n) ==
    {MkWcs(n, ax) : ax \in
        {f \in [1..n -> UNION {FirstAxis(a) : a \in 1..n}] :
            \A a \in 1..n : f[a] \in FirstAxis(a)}}

\* a further exposure: mapping 0 displaced on the sky, with its own size
\* along x and its own spectral reference pixel
Variation ==
    {[dx |-> 0,     dy |-> 0, sx |-> 2, dc |-> 0],
     [dx |-> 0,     dy |-> 4, sx |-> 3, dc |-> 0],
     [dx |-> 4,     dy |-> 4, sx |-> 2, dc |-> 0],
     [dx |-> 0 - 4, dy |-> 0, sx |-> 3, dc |-> 0],
     [dx |-> 4,     dy |-> 0, sx |-> 3, dc |-> 2],
     [dx |-> 0 - 4, dy |-> 0, sx |-> 2, dc |-> 2]}

Vary(w, v) ==
    [w EXCEPT
        !.crval = [a \in 1..w.naxis |->
                      IF a = 1 THEN w.crval[1] + v.dx
                      ELSE IF a = 2 THEN w.crval[2] + v.dy
                      ELSE w.crval[a]],
        !.crpix = [a \in 1..w.naxis |->
                      IF a = 3 THEN w.crpix[3] + v.dc ELSE w.crpix[a]],
        !.array_shape = [k \in 1..w.naxis |->
                      IF k = w.naxis THEN v.sx ELSE w.array_shape[k]]]

\* 2-D mappings have no spectral axis to vary
VariationFor(n) == IF n = 3 THEN Variation ELSE {v \in Variation : v.dc = 0}

WcsLists(n) ==
    UNION {{[i \in 1..k |-> IF i = 1 THEN w ELSE Vary(w, vs[i])] :
               vs \in [1..k -> VariationFor(n)]} :
           k \in 1..MaxN, w \in FirstWcs(n)}

\* shifts along x by 0 or half a pixel each, or by whole pixels growing
\* with the exposure; none along the other axes.  Also a list one too long
\* and a list one too short.
ShiftVec(n, sx) == [a \in 1..n |-> IF a = 1 THEN sx ELSE 0]

ShiftChoices(L) ==
    LET n == L[1].naxis
    IN  {None}
        \cup {Some([i \in 1..Len(L) |-> ShiftVec(n, f[i])]) :
                  f \in [1..Len(L) -> {0, 1}]}
        \cup {Some([i \in 1..Len(L) |-> ShiftVec(n, 2 * i)])}
        \cup {Some([i \in 1..(Len(L) + 1) |-> ShiftVec(n, 0)]),
              Some([i \in 1..(Len(L) - 1) |-> ShiftVec(n, 2)])}

NoPrev == [done |-> FALSE, out |-> NoWcs, err |-> ""]

NoFile == [name |-> "", header |-> NoWcs, data |-> <<>>]

NoOpts == [ignore_wcs |-> FALSE, sigma_clip |-> FALSE, sigma |-> 0,
           bgsub |-> FALSE, weighting |-> "none"]

\* the additional_drifts argument left at None
NoDrifts == [kind |-> "none", v |-> <<>>]

\* a caller that uses neither compute_eris_offset nor compute_weighting_eris
ErisIdle ==
    /\ headers = <<>>
    /\ additional_drifts = NoDrifts
    /\ array_offset = <<>>
    /\ weights = None

\* a caller that does not use fill_mask
FillIdle ==
    /\ fm_image = <<>>
    /\ fm_mask = <<>>
    /\ image_filled = <<>>
    /\ fill_entry = <<>>

\* the local variable daily_id_calib_pool before its first assignment
Unbound == [bound |-> FALSE, v |-> <<>>]

\* a caller that uses neither quick_combine nor run_eris_pipeline
ToolsIdle ==
    /\ overwrite = FALSE
    /\ excludes = None
    /\ obs_dirs = <<>>
    /\ qc_i = 0
    /\ ob_calls = <<>>
    /\ ob_image_list = <<>>
    /\ image_exp_list = <<>>
    /\ ob_queue = <<>>
    /\ pools = {}
    /\ daily_id_calib_pool = Unbound
    /\ calib_returned = <<>>
    /\ pipe_i = 0
    /\ jitter_runs = <<>>

\* a caller that uses neither find_combined_wcs nor data_combine
CombineIdle ==
    /\ wcs_list = <<>>
    /\ pixel_shifts = None
    /\ wcs_combined = NoWcs
    /\ entry_list = <<>>
    /\ prev = NoPrev
    /\ calls = 0
    /\ image_list = <<>>
    /\ opts = NoOpts
    /\ loop_i = 0
    /\ data_combined = <<>>
    /\ coverage_combined = <<>>
    /\ saved = NoFile

InitFcw ==
    /\ mode = "fcw"
    /\ pc = "ready"
    /\ wcs_list \in WcsLists(2) \cup WcsLists(3)
                      \cup {<<w>> : w \in FirstWcs(1) \cup FirstWcs(4)}
    /\ pixel_shifts \in ShiftChoices(wcs_list)
    /\ wcs_combined = NoWcs
    /\ err = ""
    /\ entry_list = wcs_list
    /\ prev = NoPrev
    /\ calls = 0
    /\ image_list = <<>>
    /\ opts = NoOpts
    /\ loop_i = 0
    /\ data_combined = <<>>
    /\ coverage_combined = <<>>
    /\ saved = NoFile
    /\ ErisIdle
    /\ FillIdle
    /\ ToolsIdle

----------------------------------------------------------------------------
(* The caller of find_combined_wcs *)

\* the effect of one call on what the caller holds
Calling(L, S, where) ==
    LET r == find_combined_wcs(L, S)
    IN  /\ entry_list' = L
        /\ wcs_list' = r.list
        /\ wcs_combined' = r.out
        /\ err' = r.err
        /\ pc' = IF r.err = "" THEN where \o "returned" ELSE where \o "raised"

\* wcs = find_combined_wcs(wcs_list=L, pixel_shifts=S)
Call ==
    /\ mode = "fcw" /\ pc = "ready"
    /\ Calling(wcs_list, pixel_shifts, "")
    /\ calls' = 1
    /\ UNCHANGED <<mode, pixel_shifts, prev>>
    /\ UNCHANGED dc_vars
    /\ UNCHANGED <<eris_vars, fill_vars, tool_vars>>

\* the same call once more: same list object, same shifts
CallAgain ==
    /\ mode = "fcw" /\ pc \in {"returned", "raised"} /\ calls = 1
    /\ prev' = [done |-> TRUE, out |-> wcs_combined, err |-> err]
    /\ Calling(wcs_list, pixel_shifts, "again_")
    /\ calls' = 2
    /\ UNCHANGED <<mode, pixel_shifts>>
    /\ UNCHANGED dc_vars
    /\ UNCHANGED <<eris_vars, fill_vars, tool_vars>>

\* find_combined_wcs(wcs_list=[G]) on the grid G a call returned
CallOnOutput ==
    /\ mode = "fcw" /\ pc = "returned" /\ calls = 1
    /\ prev' = [done |-> TRUE, out |-> wcs_combined, err |-> err]
    /\ pixel_shifts' = None
    /\ Calling(<<wcs_combined>>, None, "self_")
    /\ calls' = 2
    /\ UNCHANGED <<mode>>
    /\ UNCHANGED dc_vars
    /\ UNCHANGED <<eris_vars, fill_vars, tool_vars>>

----------------------------------------------------------------------------
(* The inputs a caller of data_combine draws from *)

\* the header mapping of exposure 0: 2 x 2 pixels, 2 or 3 channels
DcFirstAxis(a) ==
    IF a = 1 THEN [crpix : {2}, crval : {0}, size : {2}]
    ELSE IF a = 2 THEN [crpix : {4}, crval : {8}, size : {2}]
    ELSE [crpix : {2}, crval : {30}, size : {2, 3}]

DcFirstWcs(n) ==
    {MkWcs(n, ax) : ax \in
        {f \in [1..n -> UNION {DcFirstAxis(a) : a \in 1..n}] :
            \A a \in 1..n : f[a] \in DcFirstAxis(a)}}

\* a further exposure: displaced by 0 or 1 pixel along x, with its own
\* number of channels
DcVariation ==
    {[dx |-> 0, nc |-> 2], [dx |-> 4, nc |-> 2], [dx |-> 4, nc |-> 3]}

DcVary(w, v) ==
    [w EXCEPT
        !.crval = [a \in 1..w.naxis |->
                      IF a = 1 THEN w.crval[1] + v.dx ELSE w.crval[a]],
        !.array_shape = [k \in 1..w.naxis |->
                      IF w.naxis = 3 /\ k = 1 THEN v.nc ELSE w.array_shape[k]]]

DcVariationFor(n) ==
    IF n = 3 THEN DcVariation ELSE {v \in DcVariation : v.nc = 2}

DcWcsLists(n) ==
    UNION {{[j \in 1..k |-> IF j = 1 THEN w ELSE DcVary(w, vs[j])] :
               vs \in [1..k -> DcVariationFor(n)]} :
           k \in 1..MaxN, w \in DcFirstWcs(n)}

\* the pixel values of an exposure file: a smooth field with a different
\* level in every channel and no two pixels of a channel alike, or the same
\* with one very bright pixel
DataOf(w, pattern) ==
    LET nc == IF w.naxis = 3 THEN w.array_shape[1] ELSE 1
        ny == w.array_shape[w.naxis - 1]
        nx == w.array_shape[w.naxis]
    IN  [c \in 1..nc |-> [y \in 1..ny |-> [x \in 1..nx |->
            IF pattern = "outlier" /\ c = 1 /\ y = ny /\ x = nx THEN 1000
            ELSE 10 * c + 2 * x + 4 * y]]]

\* the data-quality array of an exposure file: clean, or one flagged pixel
MaskOf(w, pattern) ==
    LET nc == IF w.naxis = 3 THEN w.array_shape[1] ELSE 1
        ny == w.array_shape[w.naxis - 1]
        nx == w.array_shape[w.naxis]
    IN  [c \in 1..nc |-> [y \in 1..ny |-> [x \in 1..nx |->
            IF pattern = "dq" /\ c = 1 /\ y = ny /\ x = nx THEN 1 ELSE 0]]]

FilePatterns ==
    {[data |-> "smooth", mask |-> "clean"],
     [data |-> "smooth", mask |-> "dq"],
     [data |-> "outlier", mask |-> "clean"]}

MkImage(w, pat) ==
    [wcs |-> w, ndim |-> w.naxis, data |-> DataOf(w, pat.data),
     mask |-> MaskOf(w, pat.mask)]

DcImageLists ==
    {[k \in 1..Len(L) |-> MkImage(L[k], pat)] :
        L \in DcWcsLists(2) \cup DcWcsLists(3), pat \in FilePatterns}

\* the weighting argument: absent, or exposure k weighted k / WUnit
DcOpts ==
    {[ignore_wcs |-> ig, sigma_clip |-> sc, sigma |-> 3, bgsub |-> bg,
      weighting |-> wt] :
        ig \in BOOLEAN, sc \in BOOLEAN, bg \in BOOLEAN,
        wt \in {"none", "given"}}

\* the savefile argument: None, or a path
SaveFiles == {"", "combined.fits"}

\* pixel shifts (x, y): none, all zero, one more pixel along x for every
\* further exposure, or a list one too long
DcShiftChoices(images) ==
    {None,
     Some([k \in 1..Len(images) |-> <<0, 0>>]),
     Some([k \in 1..Len(images) |-> <<2 * (k - 1), 0>>]),
     Some([k \in 1..(Len(images) + 1) |-> <<2 * (k - 1), 0>>])}

\* every exposure sits a whole number of pixels from the combined grid
Aligned(images, S, ignore_wcs) ==
    IF DcShiftsMismatch(images, S) THEN TRUE
    ELSE IF ignore_wcs /\ S.given /\ images[1].wcs.naxis # 3 THEN TRUE
    ELSE LET L == DcWcsList(images, S, ignore_wcs)
             g == find_combined_wcs(L, None).out
         IN  \A k \in 1..Len(L) : \A a \in 1..2 :
                 pixel_to_pixel(g, L[k], a, 0) % 2 = 0

InitDc ==
    /\ mode = "dc"
    /\ pc = "dc_ready"
    /\ image_list \in DcImageLists
    /\ opts \in DcOpts
    /\ pixel_shifts \in DcShiftChoices(image_list)
    /\ Aligned(image_list, pixel_shifts, opts.ignore_wcs)
    /\ wcs_list = <<>>
    /\ wcs_combined = NoWcs
    /\ err = ""
    /\ loop_i = 0
    /\ data_combined = <<>>
    /\ coverage_combined = <<>>
    /\ saved = NoFile
    /\ entry_list = <<>>
    /\ prev = NoPrev
    /\ calls = 0
    /\ ErisIdle
    /\ FillIdle
    /\ ToolsIdle

----------------------------------------------------------------------------
(* data_combine *)

DcRaise(e) ==
    /\ pc' = "dc_raised"
    /\ err' = e

\* lines 1004-1062: checks, the list of mappings, the combined grid, the
\* empty output arrays
DcSetup ==
    /\ mode = "dc" /\ pc = "dc_ready"
    /\ IF DcShiftsMismatch(image_list, pixel_shifts)
       THEN /\ DcRaise("ValueError: Pixel_shift does not match")
            /\ UNCHANGED <<wcs_list, wcs_combined, data_combined,
                           coverage_combined>>
       ELSE IF opts.ignore_wcs /\ pixel_shifts.given
                /\ image_list[1].wcs.naxis # 3
       THEN /\ DcRaise("ValueError: operands could not be broadcast")
            /\ UNCHANGED <<wcs_list, wcs_combined, data_combined,
                           coverage_combined>>
       ELSE LET L == DcWcsList(image_list, pixel_shifts, opts.ignore_wcs)
                r == find_combined_wcs(L, None)
                shape == r.out.array_shape
                nc == IF Len(shape) = 3 THEN shape[1] ELSE 1
                ny == shape[Len(shape) - 1]
                nx == shape[Len(shape)]
            IN  IF r.err # ""
                THEN /\ DcRaise(r.err)
                     /\ wcs_list' = r.list
                     /\ UNCHANGED <<wcs_combined, data_combined,
                                    coverage_combined>>
                ELSE /\ wcs_list' = r.list
                     /\ wcs_combined' = r.out
                     /\ data_combined' = Full(nc, ny, nx, Num(0))
                     /\ coverage_combined' = Full(nc, ny, nx, Num(0))
                     /\ pc' = "dc_loop"
                     /\ err' = ""
    /\ UNCHANGED <<mode, pixel_shifts, image_list, opts, loop_i, saved>>
    /\ UNCHANGED fcw_vars
    /\ UNCHANGED <<eris_vars, fill_vars, tool_vars>>

\* lines 1065-1116: one pass of the loop over the exposures
DcExposure ==
    /\ mode = "dc" /\ pc = "dc_loop" /\ loop_i < Len(image_list)
    /\ LET k == loop_i + 1
           r == Resampled(image_list[k], wcs_list[k], wcs_combined, opts)
       IN  IF r.err # ""
           THEN /\ DcRaise(r.err)
                /\ UNCHANGED <<loop_i, data_combined, coverage_combined>>
           ELSE /\ data_combined' =
                       AccumulateData(data_combined, r.data,
                           Weighting(opts, Len(image_list))[k])
                /\ coverage_combined' =
                       AccumulateCoverage(coverage_combined, r.mask)
                /\ loop_i' = k
                /\ UNCHANGED <<pc, err>>
    /\ UNCHANGED <<mode, pixel_shifts, image_list, opts, wcs_list,
                   wcs_combined, saved>>
    /\ UNCHANGED fcw_vars
    /\ UNCHANGED <<eris_vars, fill_vars, tool_vars>>

\* lines 1119-1140: the division, then the file or the return, for the
\* savefile argument the call was given
DcFinish(savefile) ==
    /\ mode = "dc" /\ pc = "dc_loop" /\ loop_i = Len(image_list)
    /\ data_combined' = Divided(data_combined, coverage_combined)
    /\ IF savefile # ""
       THEN IF wcs_combined.naxis # 3
            THEN /\ DcRaise("KeyError: CD3_3")
                 /\ UNCHANGED saved
            ELSE /\ saved' = [name |-> savefile,
                              header |-> wcs_combined,
                              data |-> data_combined']
                 /\ pc' = "dc_saved"
                 /\ UNCHANGED err
       ELSE /\ DcRaise("NameError: error_combined")
            /\ UNCHANGED saved
    /\ UNCHANGED <<mode, pixel_shifts, image_list, opts, loop_i, wcs_list,
                   wcs_combined, coverage_combined>>
    /\ UNCHANGED fcw_vars
    /\ UNCHANGED <<eris_vars, fill_vars, tool_vars>>

----------------------------------------------------------------------------
(* compute_weighting_eris and compute_eris_offset.                          *)
(* A header is [ARCFILE, EXPTIME, ra_offset, dec_offset, CD1_1, CD2_2]:     *)
(* the pointing offsets in arcsec, the CD terms in arcsec per pixel (the    *)
(* factor 3600 of lines 1251-1252 is folded into the unit).  Pixel shifts   *)
(* are counted in units of 1/OffUnit pixel, which keeps the divisions by    *)
(* the pixel scales exact.                                                  *)

\* line 1208: pixel_center = [32., 32.], the expected centre
pixel_center == 32

\* the header variants an exposure is drawn from: the reference pointing,
\* one pixel scale further along RA, and two with pixel scales of their own
HeaderVariants ==
    {[EXPTIME |-> 1, ra_offset |-> 0, dec_offset |-> 0,
      CD1_1 |-> 0 - 1, CD2_2 |-> 1],
     [EXPTIME |-> 2, ra_offset |-> 1, dec_offset |-> 0,
      CD1_1 |-> 0 - 1, CD2_2 |-> 1],
     [EXPTIME |-> 3, ra_offset |-> 2, dec_offset |-> 4,
      CD1_1 |-> 0 - 2, CD2_2 |-> 1],
     [EXPTIME |-> 1, ra_offset |-> 0 - 2, dec_offset |-> 2,
      CD1_1 |-> 0 - 1, CD2_2 |-> 2]}

RECURSIVE ProductOf(_)
ProductOf(S) ==
    IF S = {} THEN 1
    ELSE LET x == CHOOSE y \in S : TRUE IN x * ProductOf(S \ {x})

\* the unit of the pixel shifts: every pixel scale of the inputs divides it
OffUnit ==
    ProductOf({Abs(h.CD1_1) : h \in HeaderVariants}
              \cup {Abs(h.CD2_2) : h \in HeaderVariants})

\* the archive identifier of the k-th file
ArcfileOf(k) == <<"ERIS.1.fits", "ERIS.2.fits", "ERIS.3.fits", "ERIS.4.fits">>[k]

MkHeader(k, h) ==
    [ARCFILE |-> ArcfileOf(k), EXPTIME |-> h.EXPTIME,
     ra_offset |-> h.ra_offset, dec_offset |-> h.dec_offset,
     CD1_1 |-> h.CD1_1, CD2_2 |-> h.CD2_2]

HeaderLists ==
    UNION {{[k \in 1..n |-> MkHeader(k, f[k])] : f \in [1..n -> HeaderVariants]} :
           n \in 1..MaxN}

\* lines 896-901: total_time, kept as the last exposure time only
total_time_last(H) == H[Len(H)].EXPTIME

\* lines 896-901: total_time += header['EXPTIME'] over the images
RECURSIVE total_time_upto(_, _)
total_time_upto(H, n) ==
    IF n = 0 THEN 0 ELSE total_time_upto(H, n - 1) + H[n].EXPTIME

total_time(H) == total_time_upto(H, Len(H))

\* lines 889-903: np.array(time_list) / total_time as exact fractions
\* [num, den]; any other mode falls off the end and returns None
compute_weighting_eris(H, m) ==
    IF m = "exptime"
    THEN Some([k \in 1..Len(H) |->
                  [num |-> H[k].EXPTIME, den |-> total_time(H)]])
    ELSE None

\* line 1251 with the pixel scale of exposure 0 used for every exposure
ra_diff_first(H, i) == Abs(H[1].CD1_1)

\* line 1251: ra_diff = abs(data_header['CD1_1']*3600.) of exposure i
ra_diff(H, i) == Abs(H[i].CD1_1)

\* line 1252: dec_diff = abs(data_header['CD2_2']*3600.) of exposure i
dec_diff(H, i) == Abs(H[i].CD2_2)

\* lines 1244-1259: the offsets from the telescope pointing
OcsOffset(H) ==
    [i \in 1..Len(H) |->
        <<((H[i].ra_offset - H[1].ra_offset) * OffUnit) \div ra_diff(H, i),
          ((H[i].dec_offset - H[1].dec_offset) * OffUnit) \div dec_diff(H, i)>>]

\* the rows of the table of one archive identifier (line 1213)
RowsOf(dat, arcfile) == {r \in 1..Len(dat) : dat[r].ARCFILE = arcfile}

\* lines 1212-1218 with the expected centre subtracted on a miss as well
DriftOf_missOffCentre(dat, arcfile) ==
    LET rows == RowsOf(dat, arcfile)
    IN  IF Cardinality(rows) = 1
        THEN LET r == CHOOSE q \in rows : TRUE
             IN  <<(dat[r].x_model - pixel_center) * OffUnit,
                   (dat[r].y_model - pixel_center) * OffUnit>>
        ELSE <<(0 - pixel_center) * OffUnit, (0 - pixel_center) * OffUnit>>

\* lines 1212-1218: the drift of one exposure, (0, 0) unless the table has
\* exactly one row of its identifier
DriftOf(dat, arcfile) ==
    LET rows == RowsOf(dat, arcfile)
    IN  IF Cardinality(rows) = 1
        THEN LET r == CHOOSE q \in rows : TRUE
             IN  <<(dat[r].x_model - pixel_center) * OffUnit,
                   (dat[r].y_model - pixel_center) * OffUnit>>
        ELSE <<0, 0>>

\* lines 1205-1219
read_eris_drifts(dat, arcfilenames) ==
    [i \in 1..Len(arcfilenames) |-> DriftOf(dat, arcfilenames[i])]

\* lines 1263-1265: the drifts as an array, read from the table when the
\* argument names one
DriftArray(H, D) ==
    IF D.kind = "table"
    THEN read_eris_drifts(D.v, [i \in 1..Len(H) |-> H[i].ARCFILE])
    ELSE D.v

\* lines 1221-1270: [err, out]
compute_eris_offset(H, D) ==
    LET ocs == OcsOffset(H)
        dr  == DriftArray(H, D)
    IN  IF D.kind = "none" THEN [err |-> "", out |-> ocs]
        ELSE IF Len(dr) < Len(H)
        THEN [err |-> "IndexError: index out of bounds", out |-> <<>>]
        ELSE [err |-> "",
              out |-> [i \in 1..Len(H) |->
                          <<ocs[i][1] + dr[i][1], ocs[i][2] + dr[i][2]>>]]

\* a literal array of drifts in pixels: all zero, growing with the
\* exposure, or one row short
DriftArrays(n) ==
    {[kind |-> "array", v |-> [i \in 1..n |-> <<0, 0>>]],
     [kind |-> "array", v |-> [i \in 1..n |-> <<i * OffUnit, 0 - OffUnit>>]],
     [kind |-> "array", v |-> [i \in 1..(n - 1) |-> <<OffUnit, 0>>]]}

\* a drift table: a row for every exposure, the row of the last exposure
\* missing, or the row of the first exposure twice
TableRow(k) ==
    [ARCFILE |-> ArcfileOf(k), x_model |-> pixel_center + k,
     y_model |-> pixel_center - 1]

DriftTables(n) ==
    {[kind |-> "table", v |-> [k \in 1..n |-> TableRow(k)]],
     [kind |-> "table", v |-> [k \in 1..(n - 1) |-> TableRow(k)]],
     [kind |-> "table", v |-> [k \in 1..(n + 1) |->
                                  IF k = n + 1 THEN TableRow(1) ELSE TableRow(k)]]}

InitCw ==
    /\ mode = "cw"
    /\ pc = "cw_ready"
    /\ headers \in HeaderLists
    /\ additional_drifts = NoDrifts
    /\ array_offset = <<>>
    /\ weights = None
    /\ err = ""
    /\ CombineIdle
    /\ FillIdle
    /\ ToolsIdle

\* weighting = compute_weighting_eris(image_list, mode=m)
ComputeWeighting(m) ==
    /\ mode = "cw" /\ pc = "cw_ready"
    /\ weights' = compute_weighting_eris(headers, m)
    /\ pc' = "cw_returned"
    /\ UNCHANGED <<mode, wcs_list, pixel_shifts, wcs_combined, err, headers,
                   additional_drifts, array_offset>>
    /\ UNCHANGED <<fcw_vars, dc_vars, fill_vars, tool_vars>>

InitOffset ==
    /\ mode = "offset"
    /\ pc = "off_ready"
    /\ headers \in HeaderLists
    /\ \E kind \in {"none", "array", "table"} :
           additional_drifts \in
               IF kind = "none" THEN {NoDrifts}
               ELSE IF kind = "array" THEN DriftArrays(Len(headers))
               ELSE DriftTables(Len(headers))
    /\ array_offset = <<>>
    /\ weights = None
    /\ err = ""
    /\ CombineIdle
    /\ FillIdle
    /\ ToolsIdle

\* drifts = compute_eris_offset(image_list, additional_drifts=D)
ComputeOffset ==
    /\ mode = "offset" /\ pc = "off_ready"
    /\ LET r == compute_eris_offset(headers, additional_drifts)
       IN  /\ array_offset' = r.out
           /\ err' = r.err
           /\ pc' = IF r.err = "" THEN "off_returned" ELSE "off_raised"
    /\ UNCHANGED <<mode, wcs_list, pixel_shifts, wcs_combined, headers,
                   additional_drifts, weights>>
    /\ UNCHANGED <<fcw_vars, dc_vars, fill_vars, tool_vars>>

NextOffset == ComputeOffset

SpecOffset == InitOffset /\ [][NextOffset]_vars

----------------------------------------------------------------------------
(* fill_mask.                                                               *)
(* An array is a sequence of rows (y) of cells (x); a cell is NaN or        *)
(* Num(v), v counted in units of 1/FillUnit so that the mean the median     *)
(* takes of two middle values stays exact.                                  *)

FillUnit == 2 ^ (2 * MaxSide + 1)

FillCells(arr) == {<<y, x>> : y \in 1..Len(arr), x \in 1..Len(arr[1])}

\* lines 916-917: the copy as float, NaN where mask == 1
NanWhereMasked(image, mask) ==
    [y \in 1..Len(image) |-> [x \in 1..Len(image[1]) |->
        IF mask[y][x] = 1 THEN NaN ELSE image[y][x]]]

\* every index of the array, in row-major order
AllIdx(arr) ==
    [k \in 1..(Len(arr) * Len(arr[1])) |->
        <<((k - 1) \div Len(arr[1])) + 1, ((k - 1) % Len(arr[1])) + 1>>]

\* the cells to assign taken as every cell of the array
mask_idx_all(mask) == AllIdx(mask)

\* line 920: mask_idx = np.argwhere(mask > 0), in row-major order
mask_idx(mask) == SelectSeq(AllIdx(mask), LAMBDA p : mask[p[1]][p[2]] > 0)

\* the slice taken without the cells diagonal to idx
Neighbourhood_cross(arr, idx) ==
    {q \in FillCells(arr) :
        /\ Abs(q[1] - idx[1]) + Abs(q[2] - idx[2]) <= 1
        /\ ~arr[q[1]][q[2]].nan}

\* lines 923-930: the cells of the slice around idx (one cell to each side,
\* cut at the edges of the array) that are not NaN
Neighbourhood(arr, idx) ==
    {q \in FillCells(arr) :
        /\ Abs(q[1] - idx[1]) <= 1
        /\ Abs(q[2] - idx[2]) <= 1
        /\ ~arr[q[1]][q[2]].nan}

\* the k-th smallest value of arr over the cells S
KthCell(S, arr, k) ==
    CHOOSE v \in {arr[p[1]][p[2]].v : p \in S} :
        /\ Cardinality({p \in S : arr[p[1]][p[2]].v < v}) < k
        /\ Cardinality({p \in S : arr[p[1]][p[2]].v <= v}) >= k

\* the median with the two middle values added and not halved
nanmedian_sum(arr, idx) ==
    LET S == Neighbourhood(arr, idx)
        n == Cardinality(S)
    IN  IF n = 0 THEN NaN
        ELSE IF n % 2 = 1 THEN Num(KthCell(S, arr, (n + 1) \div 2))
        ELSE Num(KthCell(S, arr, n \div 2) + KthCell(S, arr, n \div 2 + 1))

\* line 931: np.nanmedian of the slice, NaN when the slice is all NaN
nanmedian(arr, idx) ==
    LET S == Neighbourhood(arr, idx)
        n == Cardinality(S)
    IN  IF n = 0 THEN NaN
        ELSE IF n % 2 = 1 THEN Num(KthCell(S, arr, (n + 1) \div 2))
        ELSE Num((KthCell(S, arr, n \div 2) + KthCell(S, arr, n \div 2 + 1))
                     \div 2)

\* lines 922-931: one pass of the for loop, the cells assigned in place one
\* after the other from the k-th on
RECURSIVE FillFrom(_, _, _)
FillFrom(arr, idxs, k) ==
    IF k > Len(idxs) THEN arr
    ELSE FillFrom([arr EXCEPT ![idxs[k][1]][idxs[k][2]] = nanmedian(arr, idxs[k])],
                  idxs, k + 1)

NanCells(arr) == {q \in FillCells(arr) : arr[q[1]][q[2]].nan}

\* the inputs: arrays of one or two rows and the square of three by three
\* (the smallest with a cell in the interior), every mask, the image
\* defined everywhere or NaN in one cell that is not masked
FillShapes == {<<ny, nx>> : ny \in 1..2, nx \in 1..MaxSide} \cup {<<3, 3>>}

FillMasks(shape) == [1..shape[1] -> [1..shape[2] -> {0, 1}]]

FillImages(shape, mask) ==
    {[y \in 1..shape[1] |-> [x \in 1..shape[2] |->
         IF <<y, x>> = q THEN NaN
         ELSE Num((x + shape[2] * (y - 1)) * FillUnit)]] :
        q \in {<<0, 0>>} \cup
              {p \in (1..shape[1]) \X (1..shape[2]) : mask[p[1]][p[2]] = 0}}

InitFill ==
    /\ mode = "fill"
    /\ pc = "fm_ready"
    /\ \E shape \in FillShapes :
           /\ fm_mask \in FillMasks(shape)
           /\ fm_image \in FillImages(shape, fm_mask)
    /\ image_filled = <<>>
    /\ fill_entry = [image |-> fm_image, mask |-> fm_mask]
    /\ err = ""
    /\ CombineIdle
    /\ ErisIdle
    /\ ToolsIdle

\* lines 915-920
FillStart ==
    /\ mode = "fill" /\ pc = "fm_ready"
    /\ image_filled' = NanWhereMasked(fm_image, fm_mask)
    /\ pc' = "fm_loop"
    /\ UNCHANGED <<mode, wcs_list, pixel_shifts, wcs_combined, err, fm_image,
                   fm_mask, fill_entry>>
    /\ UNCHANGED <<fcw_vars, dc_vars, eris_vars, tool_vars>>

\* lines 921-931: one pass of the while loop.  The loop is followed until a
\* pass fills no cell: the same cells are then NaN in every later pass, and
\* the loop goes on without end.
FillPass ==
    /\ mode = "fill" /\ pc = "fm_loop"
    /\ NanCells(image_filled) # {}
    /\ image_filled' = FillFrom(image_filled, mask_idx(fm_mask), 1)
    /\ pc' = IF NanCells(image_filled') = NanCells(image_filled)
             THEN "fm_spinning" ELSE "fm_loop"
    /\ UNCHANGED <<mode, wcs_list, pixel_shifts, wcs_combined, err, fm_image,
                   fm_mask, fill_entry>>
    /\ UNCHANGED <<fcw_vars, dc_vars, eris_vars, tool_vars>>

\* lines 921, 932: no NaN is left, image_filled is returned
FillReturn ==
    /\ mode = "fill" /\ pc = "fm_loop"
    /\ NanCells(image_filled) = {}
    /\ pc' = "fm_returned"
    /\ UNCHANGED <<mode, wcs_list, pixel_shifts, wcs_combined, err>>
    /\ UNCHANGED <<fcw_vars, dc_vars, eris_vars, fill_vars, tool_vars>>

NextFill == FillStart \/ FillPass \/ FillReturn

SpecFill == InitFill /\ [][NextFill]_vars

----------------------------------------------------------------------------
(* quick_combine.                                                           *)
(* An OB directory is [match, ob_exptime, exp_list, combined]: whether its  *)
(* name parses and names the target, band and spaxel asked for, the         *)
(* exposure time in its name, the archive identifiers of the exposure       *)
(* cubes found in it, and whether its combined product is on disk.          *)

\* the largest number of OBs the quick tools go through in one run
MaxOb == 2

ObDirVariants ==
    {[match |-> TRUE, ob_exptime |-> 10, combined |-> FALSE,
      exp_list |-> <<ArcfileOf(1), ArcfileOf(2)>>],
     [match |-> TRUE, ob_exptime |-> 10, combined |-> TRUE,
      exp_list |-> <<ArcfileOf(1), ArcfileOf(2)>>],
     [match |-> TRUE, ob_exptime |-> 20, combined |-> FALSE,
      exp_list |-> <<ArcfileOf(3)>>],
     [match |-> TRUE, ob_exptime |-> 20, combined |-> FALSE,
      exp_list |-> <<ArcfileOf(2), ArcfileOf(3), ArcfileOf(4)>>],
     [match |-> TRUE, ob_exptime |-> 10, combined |-> FALSE,
      exp_list |-> <<>>],
     [match |-> FALSE, ob_exptime |-> 10, combined |-> FALSE,
      exp_list |-> <<ArcfileOf(1)>>]}

ObDirLists == UNION {[1..n -> ObDirVariants] : n \in 1..MaxOb}

ExcludeChoices ==
    {None, Some({}), Some({ArcfileOf(1)}), Some({ArcfileOf(2), ArcfileOf(3)})}

\* lines 1466-1468: the exposure is left out
Excluded_by(ex, arcfile) == ex.given /\ arcfile \in ex.v

\* lines 1461-1470: exp_list_valid, here by archive identifier
exp_list_valid(ob, ex) ==
    SelectSeq(ob.exp_list, LAMBDA a : ~Excluded_by(ex, a))

\* line 1477: ob_total_exptime = int(ob_exptime) * len(exp_list)
ob_total_exptime(ob) == ob.ob_exptime * Len(ob.exp_list)

\* lines 1482-1485: compute_eris_offset(exp_list, ...) and
\* data_combine(image_list=exp_list, ...), the arguments of the two calls
PerObCall(k, ob) ==
    [kind |-> "ob", ob |-> k,
     offset_images |-> ob.exp_list,
     combine_images |-> ob.exp_list,
     weighting |-> <<>>]

RECURSIVE SeqSum(_, _)
SeqSum(s, n) == IF n = 0 THEN 0 ELSE SeqSum(s, n - 1) + s[n]

InitQuick ==
    /\ mode = "quick"
    /\ pc = "qc_loop"
    /\ obs_dirs \in ObDirLists
    /\ excludes \in ExcludeChoices
    /\ overwrite \in BOOLEAN
    /\ qc_i = 0
    /\ ob_calls = <<>>
    /\ ob_image_list = <<>>
    /\ image_exp_list = <<>>
    /\ ob_queue = <<>>
    /\ pools = {}
    /\ daily_id_calib_pool = Unbound
    /\ calib_returned = <<>>
    /\ pipe_i = 0
    /\ jitter_runs = <<>>
    /\ err = ""
    /\ CombineIdle
    /\ ErisIdle
    /\ FillIdle

\* lines 1444-1488: one OB directory
QcOb ==
    /\ mode = "quick" /\ pc = "qc_loop" /\ qc_i < Len(obs_dirs)
    /\ LET k  == qc_i + 1
           ob == obs_dirs[k]
       IN  /\ qc_i' = k
           /\ IF ~ob.match \/ Len(exp_list_valid(ob, excludes)) < 1
              THEN UNCHANGED <<obs_dirs, ob_calls, ob_image_list,
                               image_exp_list>>
              ELSE /\ IF ~ob.combined \/ overwrite
                      THEN /\ ob_calls' =
                                  Append(ob_calls, PerObCall(k, ob))
                           /\ obs_dirs' =
                                  [obs_dirs EXCEPT ![k].combined = TRUE]
                      ELSE UNCHANGED <<obs_dirs, ob_calls>>
                   /\ ob_image_list' = Append(ob_image_list, k)
                   /\ image_exp_list' =
                          Append(image_exp_list, ob_total_exptime(ob))
    /\ UNCHANGED <<mode, pc, wcs_list, pixel_shifts, wcs_combined, err,
                   overwrite, excludes, ob_queue, pools, daily_id_calib_pool,
                   calib_returned, pipe_i, jitter_runs>>
    /\ UNCHANGED <<fcw_vars, dc_vars, eris_vars, fill_vars>>

\* lines 1491-1512: nothing to combine, or the products of the OBs combined
\* with weights exposure time over total exposure time
QcFinish ==
    /\ mode = "quick" /\ pc = "qc_loop" /\ qc_i = Len(obs_dirs)
    /\ IF Len(ob_image_list) < 1
       THEN /\ pc' = "qc_nothing"
            /\ UNCHANGED ob_calls
       ELSE /\ pc' = "qc_combined"
            /\ ob_calls' =
                   Append(ob_calls,
                          [kind |-> "final", ob |-> 0,
                           offset_images |-> <<>>,
                           combine_images |-> ob_image_list,
                           weighting |->
                               [j \in 1..Len(image_exp_list) |->
                                   [num |-> image_exp_list[j],
                                    den |-> SeqSum(image_exp_list,
                                                   Len(image_exp_list))]]])
    /\ UNCHANGED <<mode, wcs_list, pixel_shifts, wcs_combined, err,
                   overwrite, excludes, obs_dirs, qc_i, ob_image_list,
                   image_exp_list, ob_queue, pools, daily_id_calib_pool,
                   calib_returned, pipe_i, jitter_runs>>
    /\ UNCHANGED <<fcw_vars, dc_vars, eris_vars, fill_vars>>

NextQuick == QcOb \/ QcFinish

SpecQuick == InitQuick /\ [][NextQuick]_vars

----------------------------------------------------------------------------
(* run_eris_pipeline and get_daily_calib.                                   *)
(* An OB of the queue is [date, band, spaxel, exptime, done]: the night,    *)
(* the setup read from its first metadata row, and whether its coadded      *)
(* cube is on disk already.  A calibration pool is named by the tuple       *)
(* <<date, band, spaxel, exptime>> that makes up its directory name.        *)

ObVariants ==
    {[date |-> "2023-01-01", band |-> "K_low", spaxel |-> "250mas",
      exptime |-> 600, done |-> FALSE],
     [date |-> "2023-01-01", band |-> "H_low", spaxel |-> "100mas",
      exptime |-> 300, done |-> FALSE],
     [date |-> "2023-01-02", band |-> "K_low", spaxel |-> "250mas",
      exptime |-> 600, done |-> FALSE],
     [date |-> "2023-01-01", band |-> "K_low", spaxel |-> "250mas",
      exptime |-> 600, done |-> TRUE]}

ObQueues == UNION {[1..n -> ObVariants] : n \in 1..MaxOb}

\* lines 1295-1296: archive_dir, by what names it
archive_dir(ob) == <<ob.date, ob.band, ob.spaxel, ob.exptime>>

\* lines 1291-1308: get_daily_calib for one OB, the download and the
\* recipes succeeding (ok) or raising: [raised, out, pools]
get_daily_calib(ob, disk, ow, ok) ==
    IF archive_dir(ob) \in disk /\ ~ow
    THEN [raised |-> FALSE, out |-> archive_dir(ob), pools |-> disk]
    ELSE IF ok
    THEN [raised |-> FALSE, out |-> archive_dir(ob),
          pools |-> disk \cup {archive_dir(ob)}]
    ELSE [raised |-> TRUE, out |-> <<>>, pools |-> disk]

InitPipeline ==
    /\ mode = "pipeline"
    /\ pc = "pipe_loop"
    /\ ob_queue \in ObQueues
    /\ pools \in {{}, {archive_dir(ob_queue[1])}}
    /\ overwrite \in BOOLEAN
    /\ daily_id_calib_pool = Unbound
    /\ calib_returned = <<>>
    /\ pipe_i = 0
    /\ jitter_runs = <<>>
    /\ excludes = None
    /\ obs_dirs = <<>>
    /\ qc_i = 0
    /\ ob_calls = <<>>
    /\ ob_image_list = <<>>
    /\ image_exp_list = <<>>
    /\ err = ""
    /\ CombineIdle
    /\ ErisIdle
    /\ FillIdle

\* lines 1379-1421: one OB.  calib_ok: the calibration can be fetched and
\* reduced; jitter_ok: the jitter recipe runs through.
PipeOb(calib_ok, jitter_ok) ==
    /\ mode = "pipeline" /\ pc = "pipe_loop" /\ pipe_i < Len(ob_queue)
    /\ LET k  == pipe_i + 1
           ob == ob_queue[k]
           r  == get_daily_calib(ob, pools, overwrite, calib_ok)
       IN  /\ pipe_i' = k
           /\ pools' = r.pools
           /\ calib_returned' =
                  Append(calib_returned,
                         IF r.raised THEN None ELSE Some(r.out))
           /\ daily_id_calib_pool' =
                  IF r.raised THEN daily_id_calib_pool
                  ELSE [bound |-> TRUE, v |-> r.out]
           /\ IF ob.done /\ ~overwrite
              THEN UNCHANGED <<jitter_runs, ob_queue>>
              ELSE IF ~daily_id_calib_pool'.bound
              THEN /\ UNCHANGED jitter_runs
                   /\ ob_queue' = [ob_queue EXCEPT ![k].done = FALSE]
              ELSE /\ jitter_runs' =
                          Append(jitter_runs,
                                 [ob |-> k,
                                  calib_pool |-> daily_id_calib_pool'.v])
                   /\ ob_queue' = [ob_queue EXCEPT ![k].done = jitter_ok]
    /\ UNCHANGED <<mode, pc, wcs_list, pixel_shifts, wcs_combined, err,
                   overwrite, excludes, obs_dirs, qc_i, ob_calls,
                   ob_image_list, image_exp_list>>
    /\ UNCHANGED <<fcw_vars, dc_vars, eris_vars, fill_vars>>

\* the loops have gone through every OB
PipeEnd ==
    /\ mode = "pipeline" /\ pc = "pipe_loop" /\ pipe_i = Len(ob_queue)
    /\ pc' = "pipe_returned"
    /\ UNCHANGED <<mode, wcs_list, pixel_shifts, wcs_combined, err>>
    /\ UNCHANGED <<fcw_vars, dc_vars, eris_vars, fill_vars, tool_vars>>

NextPipeline ==
    \/ \E calib_ok \in BOOLEAN, jitter_ok \in BOOLEAN :
           PipeOb(calib_ok, jitter_ok)
    \/ PipeEnd

SpecPipeline == InitPipeline /\ [][NextPipeline]_vars

Init == InitFcw \/ InitDc \/ InitCw

Next ==
    \/ Call
    \/ CallAgain
    \/ CallOnOutput
    \/ DcSetup
    \/ DcExposure
    \/ \E savefile \in SaveFiles : DcFinish(savefile)
    \/ \E m \in {"exptime", "rms"} : ComputeWeighting(m)

Spec == Init /\ [][Next]_vars

----------------------------------------------------------------------------
(* Properties of find_combined_wcs *)

\* the first call of the run has ended
FirstCallEnded == mode = "fcw" /\ calls = 1 /\ pc \in {"returned", "raised"}

\* size of mapping w along axis a (array_shape is in reversed axis order)
SizeOf(w, a) == w.array_shape[w.naxis + 1 - a]

\* pixel P (half pixels) of mapping w rounds to an index inside [0, size)
InsideGrid(w, a, P) == (0 - 1) <= P /\ P <= 2 * SizeOf(w, a) - 1

\* C1: the returned grid covers every pixel of every input exposure: both
\* ends of exposure i's own pixel grid, taken through world coordinates into
\* the returned mapping, land at an index inside the returned shape.
C1_CoversUnion ==
    (FirstCallEnded /\ pc = "returned") =>
        \A i \in 1..Len(wcs_list) : \A a \in 1..wcs_combined.naxis :
            \A P \in {0, 2 * (SizeOf(wcs_list[i], a) - 1)} :
                InsideGrid(wcs_combined, a,
                           pixel_to_pixel(wcs_list[i], wcs_combined, a, P))

\* C2: a call with pixel_shifts given leaves the caller's mappings as they
\* were when the call began.
C2_InputNotMutated ==
    (FirstCallEnded /\ pixel_shifts.given) => wcs_list = entry_list

\* C3: a second call with the same list and the same shifts gives the same
\* outcome as the first.
C3_SameTwice ==
    (mode = "fcw" /\ pc \in {"again_returned", "again_raised"}) =>
        (wcs_combined = prev.out /\ err = prev.err)

\* C4: for one mapping and no shift the returned grid is the input's grid:
\* same shape, reference pixel at the centre of the grid (to within a
\* pixel), and every pixel at the same world coordinate (to within a pixel).
C4_SingleIsIdentity ==
    (FirstCallEnded /\ pc = "returned" /\ Len(entry_list) = 1
        /\ ~pixel_shifts.given) =>
        LET w == entry_list[1]
            g == wcs_combined
        IN  /\ g.array_shape = w.array_shape
            /\ \A a \in 1..2 : Abs(g.crpix[a] - (SizeOf(w, a) + 1)) <= 2
            /\ \A a \in 1..w.naxis : \A k \in 0..(SizeOf(w, a) - 1) :
                   Abs(PixelToWorld(g, a, 2 * k) - PixelToWorld(w, a, 2 * k))
                       <= 2 * Abs(w.cd[a])

\* C5: the solver reproduces its own output: find_combined_wcs([G]) has the
\* array shape and the reference pixel of G.
C5_Idempotent ==
    (mode = "fcw" /\ pc \in {"self_returned", "self_raised"}) =>
        /\ pc = "self_returned"
        /\ wcs_combined.array_shape = prev.out.array_shape
        /\ wcs_combined.crpix = prev.out.crpix

\* a grid wider than any single exposure was fed back to the solver
C5_Witness ==
    /\ mode = "fcw" /\ pc = "self_returned"
    /\ prev.out.naxis = 3 /\ SizeOf(prev.out, 1) > 3

\* C7: a first mapping with other than 2 or 3 axes makes the call fail, with
\* no mapping shifted and no grid returned; 2 and 3 axes do not raise this.
C7_NaxisRejected ==
    FirstCallEnded =>
        /\ (entry_list[1].naxis \notin {2, 3}) =>
               (pc = "raised" /\ err # "" /\ wcs_list = entry_list
                   /\ wcs_combined = NoWcs)
        /\ (entry_list[1].naxis \in {2, 3}) =>
               err # "ValueError: Unsupport datacube"

\* a 4-axis mapping was rejected although well-formed, non-zero shifts came
C7_Witness ==
    /\ FirstCallEnded /\ pc = "raised"
    /\ err = "ValueError: Unsupport datacube"
    /\ entry_list[1].naxis = 4
    /\ pixel_shifts.given /\ pixel_shifts.v[1][1] # 0

\* C6: a pixel-shift list of another length than the list of mappings or
\* exposures is rejected with a ValueError by find_combined_wcs and by
\* data_combine, with no mapping shifted, no grid, no exposure processed,
\* no output array and no file.
C6_MismatchRejected ==
    /\ (FirstCallEnded /\ pixel_shifts.given
            /\ Len(pixel_shifts.v) # Len(entry_list)) =>
           /\ pc = "raised"
           /\ err = "ValueError: Pixel_shift does not match"
           /\ wcs_list = entry_list
           /\ wcs_combined = NoWcs
    /\ (mode = "dc" /\ pc # "dc_ready" /\ pixel_shifts.given
            /\ Len(pixel_shifts.v) # Len(image_list)) =>
           /\ pc = "dc_raised"
           /\ err = "ValueError: Pixel_shift does not match"
           /\ wcs_list = <<>>
           /\ wcs_combined = NoWcs
           /\ loop_i = 0
           /\ data_combined = <<>>
           /\ coverage_combined = <<>>
           /\ saved = NoFile

\* data_combine rejected a shift list one longer than its two exposures
C6_Witness ==
    /\ mode = "dc" /\ pc = "dc_raised"
    /\ err = "ValueError: Pixel_shift does not match"
    /\ Len(image_list) = 2 /\ Len(pixel_shifts.v) = 3

----------------------------------------------------------------------------
(* Properties of data_combine *)

\* data_combine has built its list of mappings and its combined grid
DcGridReady == mode = "dc" /\ pc # "dc_ready" /\ wcs_combined # NoWcs

\* every exposure has been accumulated
DcAllAccumulated == DcGridReady /\ loop_i = Len(image_list)

\* the division of line 1119 has been made
DcDivided ==
    /\ DcAllAccumulated
    /\ \/ pc = "dc_saved"
       \/ (pc = "dc_raised"
             /\ err \in {"NameError: error_combined", "KeyError: CD3_3"})

\* where pixel 0 of exposure k lands in the combined grid, along axis a
Landing(k, a) == pixel_to_pixel(wcs_list[k], wcs_combined, a, 0)

\* where pixel 0 of exposure k lies relative to exposure 0 when no shift is
\* applied: by the headers, or nowhere else when the headers are ignored
Unshifted(k, a) ==
    IF opts.ignore_wcs THEN 0
    ELSE pixel_to_pixel(image_list[k].wcs, image_list[1].wcs, a, 0)

\* C8: the pixel shift of an exposure takes part in where its data lands:
\* an exposure shifted differently from exposure 0 lands elsewhere,
\* relative to exposure 0, than it does without shifts; with the headers
\* used and with the headers ignored.
C8_ShiftsTakePart ==
    (DcGridReady /\ pixel_shifts.given) =>
        \A k \in 2..Len(image_list) : \A a \in 1..2 :
            (pixel_shifts.v[k][a] # pixel_shifts.v[1][a]) =>
                (Landing(k, a) - Landing(1, a) # Unshifted(k, a))

\* output pixel (y, x) lies on a pixel of exposure k
Covers(k, y, x) ==
    LET px == pixel_to_pixel(wcs_combined, wcs_list[k], 1, 2 * (x - 1))
        py == pixel_to_pixel(wcs_combined, wcs_list[k], 2, 2 * (y - 1))
    IN  /\ 0 <= px /\ px <= 2 * (NX(image_list[k].data) - 1)
        /\ 0 <= py /\ py <= 2 * (NY(image_list[k].data) - 1)

\* exposure k as data_combine resamples it onto the combined grid
ResampledOf(k) ==
    Resampled(image_list[k], wcs_list[k], wcs_combined, opts)

RECURSIVE UnmaskedSum(_, _)
UnmaskedSum(k, p) ==
    IF k = 0 THEN Num(0)
    ELSE Add(UnmaskedSum(k - 1, p), OneMinus(At(ResampledOf(k).mask, p)))

\* C9: the accumulated coverage is epsilon plus the sum of (1 - resampled
\* mask) over the exposures; for two unmasked exposures of one shape a
\* whole number of pixels apart that is 2 where both cover the pixel, 1
\* where one does and epsilon (0 units) where none does.
C9_CoverageCounts ==
    DcAllAccumulated =>
        /\ \A p \in Idx(coverage_combined) :
               At(coverage_combined, p) = UnmaskedSum(Len(image_list), p)
        /\ (/\ Len(image_list) = 2
            /\ ~opts.sigma_clip
            /\ image_list[1].wcs.array_shape = image_list[2].wcs.array_shape
            /\ \A k \in 1..2 : MaskedSet(image_list[k].mask) = {}) =>
               \A p \in Idx(coverage_combined) :
                   At(coverage_combined, p) =
                       Num(Cardinality({k \in 1..2 : Covers(k, p[2], p[3])}))

\* the pixels of exposure k that are flagged or rejected by the clipping,
\* after its channels were fitted to the grid
Excluded(k) ==
    LET img == image_list[k]
        nc == wcs_combined.array_shape[1]
        d0 == IF img.ndim = 3 THEN FitChannels(img.data, nc, 0) ELSE img.data
        m0 == IF img.ndim = 3 THEN FitChannels(img.mask, nc, 0) ELSE img.mask
    IN  IF opts.sigma_clip THEN sigma_clip(d0, MaskedSet(m0), opts.sigma, 5)
        ELSE MaskedSet(m0)

\* the value exposure k brings to output pixel p: nothing (NaN) off its
\* footprint, 0 for an excluded pixel, else its (background subtracted)
\* value
Contribution(k, p) ==
    LET img == image_list[k]
        nc == wcs_combined.array_shape[1]
        d0 == IF img.ndim = 3 THEN FitChannels(img.data, nc, 0) ELSE img.data
        ex == Excluded(k)
        px == pixel_to_pixel(wcs_combined, wcs_list[k], 1, 2 * (p[3] - 1))
        py == pixel_to_pixel(wcs_combined, wcs_list[k], 2, 2 * (p[2] - 1))
        q  == <<p[1], py \div 2 + 1, px \div 2 + 1>>
    IN  IF ~Covers(k, p[2], p[3]) THEN NaN
        ELSE IF q \in ex THEN Num(0)
        ELSE IF opts.bgsub THEN Num(At(d0, q) - ChannelMedian(d0, ex, q[1]))
        ELSE Num(At(d0, q))

RECURSIVE WeightedSum(_, _)
WeightedSum(k, p) ==
    IF k = 0 THEN Num(0)
    ELSE Add(WeightedSum(k - 1, p),
             Times(Contribution(k, p), Weighting(opts, Len(image_list))[k]))

\* C10: the final value at every output pixel is the weighted sum of the
\* resampled exposures, flagged and clipped pixels counting as 0, divided
\* by the accumulated coverage.
C10_WeightedMean ==
    DcDivided =>
        \A p \in Idx(data_combined) :
            At(data_combined, p) =
                Quotient(WeightedSum(Len(image_list), p),
                         At(coverage_combined, p))

\* two exposures, one flagged pixel each, and a pixel of the product that
\* both of them cover with a value that is not 0
C10_Witness ==
    /\ DcDivided /\ pc = "dc_saved"
    /\ Len(image_list) = 2
    /\ MaskedSet(image_list[1].mask) # {}
    /\ \E p \in Idx(data_combined) :
           /\ ~At(data_combined, p).nan
           /\ At(data_combined, p).cov = 2
           /\ At(data_combined, p).num # 0

----------------------------------------------------------------------------
(* Coverage, the end of data_combine, 2-D input *)

\* the step just taken accumulated one more exposure
Accumulated == mode = "dc" /\ pc = "dc_loop" /\ loop_i' = loop_i + 1

\* C11: the coverage is strictly positive (epsilon plus a count that is not
\* negative, so never NaN) at every output pixel in every state of the
\* accumulation, and where the resampled mask of the exposure being added
\* lies in [0, 1] the coverage of a pixel does not decrease.
C11_CoveragePositive ==
    /\ [](DcGridReady =>
            \A p \in Idx(coverage_combined) :
                /\ ~At(coverage_combined, p).nan
                /\ At(coverage_combined, p).v >= 0)
    /\ [][Accumulated =>
            \A p \in Idx(coverage_combined) :
                (/\ ~At(coverage_combined, p).nan
                 /\ ~At(ResampledOf(loop_i + 1).mask, p).nan) =>
                    /\ ~At(coverage_combined', p).nan
                    /\ At(coverage_combined', p).v
                           >= At(coverage_combined, p).v]_vars

\* data_combine has gone past its division, to its end
DcEnded == DcAllAccumulated /\ pc # "dc_loop"

\* C12: once every exposure is accumulated, data_combine ends without an
\* error: with a save path the product is written, without one the array
\* is returned.
C12_EndsWithoutError ==
    DcEnded =>
        /\ err = ""
        /\ pc \in {"dc_saved", "dc_returned"}
        /\ (pc = "dc_saved") => (saved.data = data_combined)

\* C13: for a list of 2-D images and the default options (sigma clipping
\* and background subtraction on, headers used, no shifts, no weights) no
\* step of the loop over the exposures raises, and the accumulated array
\* has the 2-D shape of the combined grid.
C13_Handles2D ==
    (/\ mode = "dc" /\ pc # "dc_ready"
     /\ \A k \in 1..Len(image_list) : image_list[k].ndim = 2
     /\ opts.sigma_clip /\ opts.bgsub /\ ~opts.ignore_wcs
     /\ opts.weighting = "none" /\ ~pixel_shifts.given) =>
        /\ err \notin {"AxisError: axis 2 is out of bounds"}
        /\ (loop_i = Len(image_list)) =>
               /\ NY(data_combined) = wcs_combined.array_shape[1]
               /\ NX(data_combined) = wcs_combined.array_shape[2]

----------------------------------------------------------------------------
(* The shape find_combined_wcs returns *)

\* the frame-0 coordinates, along axis a, of index 0 and index size - 1 of
\* every mapping's own pixel grid
OwnCornerSet(L, a) ==
    {pixel_to_pixel(L[i], L[1], a, P) :
        i \in 1..Len(L), P \in {0}} \cup
    {pixel_to_pixel(L[i], L[1], a, 2 * (SizeOf(L[i], a) - 1)) :
        i \in 1..Len(L)}

SetMin(S) == CHOOSE m \in S : \A x \in S : m <= x
SetMax(S) == CHOOSE m \in S : \A x \in S : m >= x

\* C20: the returned array shape is, per axis, round(max - min + 1) of the
\* frame-0 coordinates of the corners of all mappings, in reversed axis
\* order, the corners of mapping i being index 0 and index size - 1 of
\* mapping i's own pixel grid.
C20_ShapeFromOwnCorners ==
    (FirstCallEnded /\ pc = "returned") =>
        \A a \in 1..wcs_combined.naxis :
            SizeOf(wcs_combined, a) =
                RoundHalf(SetMax(OwnCornerSet(wcs_list, a))
                          - SetMin(OwnCornerSet(wcs_list, a)) + 2)

----------------------------------------------------------------------------
(* Properties of compute_eris_offset *)

OffsetReturned == mode = "offset" /\ pc = "off_returned"

\* C14: the pixel shift returned for exposure 0 is (0, 0), with no drifts,
\* with a literal array of drifts and with a drift table.
C14_FirstIsZero == OffsetReturned => array_offset[1] = <<0, 0>>

TableRowsFor(i) ==
    {r \in 1..Len(additional_drifts.v) :
        additional_drifts.v[r].ARCFILE = headers[i].ARCFILE}

\* C16: with a drift table the call returns a shift for every exposure: the
\* pointing-derived shift plus the drift the table records for the
\* exposure's archive identifier (its modelled position less the expected
\* centre), or plus (0, 0) when the table has no row of that identifier.
C16_DriftTable ==
    (mode = "offset" /\ pc # "off_ready" /\ additional_drifts.kind = "table") =>
        /\ pc = "off_returned"
        /\ Len(array_offset) = Len(headers)
        /\ \A i \in 1..Len(headers) :
               LET h == headers[i]
                   rows == TableRowsFor(i)
                   dx == array_offset[i][1] * Abs(h.CD1_1)
                             - (h.ra_offset - headers[1].ra_offset) * OffUnit
                   dy == array_offset[i][2] * Abs(h.CD2_2)
                             - (h.dec_offset - headers[1].dec_offset) * OffUnit
               IN  /\ (rows = {}) => (dx = 0 /\ dy = 0)
                   /\ \A r \in rows : (rows = {r}) =>
                          LET row == additional_drifts.v[r]
                          IN  /\ dx = (row.x_model - pixel_center) * OffUnit
                                         * Abs(h.CD1_1)
                              /\ dy = (row.y_model - pixel_center) * OffUnit
                                         * Abs(h.CD2_2)

\* the table lacks the last of several exposures and holds the others
C16_Witness ==
    /\ OffsetReturned /\ additional_drifts.kind = "table"
    /\ Len(headers) >= 2
    /\ TableRowsFor(Len(headers)) = {}
    /\ Cardinality(TableRowsFor(1)) = 1
    /\ array_offset[1] # <<0, 0>>

----------------------------------------------------------------------------
(* Weights *)

RECURSIVE NumSum(_, _)
NumSum(w, n) == IF n = 0 THEN 0 ELSE NumSum(w, n - 1) + w[n].num

RECURSIVE WeightSum(_, _)
WeightSum(w, n) == IF n = 0 THEN 0 ELSE WeightSum(w, n - 1) + w[n]

RECURSIVE ExptimeSum(_)
ExptimeSum(n) == IF n = 0 THEN 0 ELSE ExptimeSum(n - 1) + headers[n].EXPTIME

\* C19: the weights are not negative and sum to 1: in exposure-time mode
\* compute_weighting_eris returns exptime_i over the sum of the exposure
\* times, and data_combine without a weighting argument uses 1/N for each
\* of its N exposures.
C19_WeightsNormalised ==
    /\ (mode = "cw" /\ pc = "cw_returned" /\ weights.given) =>
           /\ Len(weights.v) = Len(headers)
           /\ \A k \in 1..Len(headers) :
                  /\ weights.v[k].num >= 0 /\ weights.v[k].den > 0
                  /\ weights.v[k].num * ExptimeSum(Len(headers))
                         = headers[k].EXPTIME * weights.v[k].den
                  /\ NumSum(weights.v, Len(headers)) = weights.v[k].den
    /\ (DcGridReady /\ opts.weighting = "none") =>
           LET N == Len(image_list)
               w == Weighting(opts, N)
           IN  /\ \A k \in 1..N : w[k] >= 0 /\ N * w[k] = WUnit
               /\ WeightSum(w, N) = WUnit

\* exposure times that differ were weighted
C19_Witness ==
    /\ mode = "cw" /\ pc = "cw_returned" /\ weights.given
    /\ Len(headers) >= 2
    /\ headers[1].EXPTIME # headers[2].EXPTIME

----------------------------------------------------------------------------
(* Properties of fill_mask *)

\* the units are fine enough: every mean of two middle values a pass is
\* about to take is a whole number of units
RECURSIVE ExactFrom(_, _, _)
ExactFrom(arr, idxs, k) ==
    IF k > Len(idxs) THEN TRUE
    ELSE LET S == Neighbourhood(arr, idxs[k])
             n == Cardinality(S)
         IN  /\ (n > 0 /\ n % 2 = 0) =>
                    (KthCell(S, arr, n \div 2)
                        + KthCell(S, arr, n \div 2 + 1)) % 2 = 0
             /\ ExactFrom([arr EXCEPT ![idxs[k][1]][idxs[k][2]] =
                                          nanmedian(arr, idxs[k])],
                          idxs, k + 1)

FillExact ==
    (mode = "fill" /\ pc = "fm_loop") =>
        ExactFrom(image_filled, mask_idx(fm_mask), 1)

\* the input has something to propagate: no cell is masked, or some cell
\* is unmasked and holds a defined value
HasSource ==
    \/ \A p \in FillCells(fill_entry.mask) :
           fill_entry.mask[p[1]][p[2]] = 0
    \/ \E p \in FillCells(fill_entry.mask) :
           /\ fill_entry.mask[p[1]][p[2]] = 0
           /\ ~fill_entry.image[p[1]][p[2]].nan

AllMasked ==
    \A p \in FillCells(fill_entry.mask) : fill_entry.mask[p[1]][p[2]] = 1

\* C17: on an input with something to propagate every pass of the loop
\* resolves at least one further cell, so the loop ends; with every cell
\* masked the call never returns.
C17_TerminatesIffSource ==
    (mode = "fill") =>
        /\ HasSource => pc # "fm_spinning"
        /\ AllMasked => pc # "fm_returned"

\* C18: when fill_mask returns no cell of the result is NaN, every cell
\* unmasked in the input holds its input value, and the caller's image and
\* mask are as they were when the call began.
C18_FillResult ==
    (mode = "fill" /\ pc = "fm_returned") =>
        /\ NanCells(image_filled) = {}
        /\ \A p \in FillCells(image_filled) :
               (fill_entry.mask[p[1]][p[2]] = 0) =>
                   image_filled[p[1]][p[2]] = fill_entry.image[p[1]][p[2]]
        /\ fm_image = fill_entry.image
        /\ fm_mask = fill_entry.mask

\* a row of three cells, the first two masked, the values reaching the
\* first cell only in a second pass
C18_Witness ==
    /\ mode = "fill" /\ pc = "fm_returned"
    /\ fill_entry.mask = <<<<1, 1, 0>>>>
    /\ ~image_filled[1][1].nan

----------------------------------------------------------------------------
(* The reference point find_combined_wcs returns *)

\* C21: for 2 and for 3 axes the x / y reference pixel of the returned
\* mapping is the centre of the returned grid (the bounding box of the
\* corners), and its reference world coordinate is what frame 0's mapping
\* assigns to that pixel; both to within one pixel.
C21_ReferenceAtCentre ==
    (FirstCallEnded /\ pc = "returned") =>
        \A a \in 1..2 :
            /\ Abs(wcs_combined.crpix[a] - (SizeOf(wcs_combined, a) + 1)) <= 2
            /\ Abs(wcs_combined.crval[a]
                     - PixelToWorld(wcs_list[1], a, wcs_combined.crpix[a] - 2))
                   <= 2 * Abs(wcs_list[1].cd[a])

\* C22: for a 3-axis mapping the first channel of the returned grid has the
\* spectral coordinate frame 0's mapping assigns to the lowest spectral
\* pixel bound of the collected corners, and the step per channel is frame
\* 0's.
C22_FirstChannel ==
    (FirstCallEnded /\ pc = "returned" /\ wcs_combined.naxis = 3) =>
        /\ PixelToWorld(wcs_combined, 3, 0) =
               PixelToWorld(wcs_list[1], 3, low_boundaries(wcs_list, 3))
        /\ wcs_combined.cd[3] = wcs_list[1].cd[3]

----------------------------------------------------------------------------
(* Channels, clipping and background of data_combine *)

\* the channels of cube exposure k as fitted to the combined grid
FittedData(k) ==
    FitChannels(image_list[k].data, wcs_combined.array_shape[1], 0)

FittedMask(k) ==
    FitChannels(image_list[k].mask, wcs_combined.array_shape[1], 0)

\* the pixel of exposure k under output pixel p
SourcePixel(k, p) ==
    <<p[1],
      pixel_to_pixel(wcs_combined, wcs_list[k], 2, 2 * (p[2] - 1)) \div 2 + 1,
      pixel_to_pixel(wcs_combined, wcs_list[k], 1, 2 * (p[3] - 1)) \div 2 + 1>>

\* C23: a cube exposure with more channels than the grid is cut to its
\* first channels, data and mask alike; one with fewer is extended with
\* data 0 and mask 0 while its own channels keep their values; one with as
\* many is left as it is.  Without clipping and background subtraction the
\* added channels so bring the value 0 and a coverage of 1 to the pixels the
\* exposure covers, and the kept channels their own data and mask.
C23_ChannelsFitted ==
    /\ [](DcGridReady =>
            \A k \in 1..Len(image_list) :
                (image_list[k].ndim = 3) =>
                    LET nc == wcs_combined.array_shape[1]
                        d  == image_list[k].data
                        m  == image_list[k].mask
                    IN  /\ NChan(FittedData(k)) = nc
                        /\ NChan(FittedMask(k)) = nc
                        /\ (NChan(d) = nc) =>
                               (FittedData(k) = d /\ FittedMask(k) = m)
                        /\ \A p \in Idx(FittedData(k)) :
                               IF p[1] <= NChan(d)
                               THEN /\ At(FittedData(k), p) = At(d, p)
                                    /\ At(FittedMask(k), p) = At(m, p)
                               ELSE /\ At(FittedData(k), p) = 0
                                    /\ At(FittedMask(k), p) = 0)
    /\ [][(Accumulated /\ image_list[loop_i + 1].ndim = 3
              /\ ~opts.sigma_clip /\ ~opts.bgsub) =>
            LET k   == loop_i + 1
                img == image_list[k]
                w   == Weighting(opts, Len(image_list))[k]
            IN  \A p \in Idx(data_combined) :
                    Covers(k, p[2], p[3]) =>
                        LET q    == SourcePixel(k, p)
                            own  == p[1] <= NChan(img.data)
                            good == IF own THEN At(img.mask, q) = 0 ELSE TRUE
                            val  == IF own /\ good THEN At(img.data, q) ELSE 0
                        IN  /\ At(data_combined', p) =
                                   Add(At(data_combined, p), Num(val * w))
                            /\ At(coverage_combined', p) =
                                   Add(At(coverage_combined, p),
                                       Num(IF good THEN 1 ELSE 0))]_vars

\* a second exposure of two channels was accumulated onto a grid of three
C23_Witness ==
    /\ mode = "dc" /\ pc = "dc_loop" /\ loop_i = 2
    /\ ~opts.sigma_clip /\ ~opts.bgsub
    /\ NChan(image_list[2].data) = 2
    /\ wcs_combined.array_shape[1] = 3
    /\ \E p \in Idx(coverage_combined) :
           p[1] = 3 /\ At(coverage_combined, p) = Num(2)

\* a second exposure of three channels was accumulated onto a grid of two
C23_WitnessCut ==
    /\ mode = "dc" /\ pc = "dc_loop" /\ loop_i = 2
    /\ ~opts.sigma_clip /\ ~opts.bgsub
    /\ NChan(image_list[2].data) = 3
    /\ wcs_combined.array_shape[1] = 2

\* the flagged pixels of exposure k, after its channels were fitted
Flagged(k) ==
    LET img == image_list[k]
    IN  MaskedSet(IF img.ndim = 3 THEN FittedMask(k) ELSE img.mask)

\* the pixels of exposure k the clipping rejects
Rejected(k) == Excluded(k) \ Flagged(k)

\* exposure k as it would be resampled with the clipping switched off
ResampledUnclipped(k) ==
    Resampled(image_list[k], wcs_list[k], wcs_combined,
              [opts EXCEPT !.sigma_clip = FALSE])

\* C24: with sigma clipping on, a pixel the clipping rejects counts as
\* masked in the rest of the pass of its exposure: it brings the value 0 and
\* no coverage to the output pixel it lies on, where without clipping the
\* exposure would bring a coverage of 1; and the background taken from a
\* channel is the median of the pixels neither flagged nor rejected.
C24_ClippedIsMasked ==
    [][(Accumulated /\ opts.sigma_clip) =>
          LET k   == loop_i + 1
              img == image_list[k]
              w   == Weighting(opts, Len(image_list))[k]
              ex  == Excluded(k)
              rej == Rejected(k)
              d0  == IF img.ndim = 3 THEN FittedData(k) ELSE img.data
              un  == AccumulateCoverage(coverage_combined,
                                        ResampledUnclipped(k).mask)
          IN  \A p \in Idx(data_combined) :
                  Covers(k, p[2], p[3]) =>
                      LET q == SourcePixel(k, p)
                      IN  /\ (q \in rej) =>
                                 /\ At(data_combined', p) =
                                        Add(At(data_combined, p), Num(0))
                                 /\ At(coverage_combined', p) =
                                        Add(At(coverage_combined, p), Num(0))
                                 /\ At(un, p) =
                                        Add(At(coverage_combined', p), Num(1))
                          /\ (q \notin ex /\ opts.bgsub) =>
                                 At(data_combined', p) =
                                     Add(At(data_combined, p),
                                         Num(w * (At(d0, q)
                                             - Median2({u \in Idx(d0) \ ex :
                                                           u[1] = q[1]}, d0)
                                                   \div 2)))]_vars

\* an exposure with one very bright pixel was accumulated with clipping and
\* background subtraction on, and the clipping rejected that pixel
C24_Witness ==
    /\ mode = "dc" /\ pc = "dc_loop" /\ loop_i >= 1
    /\ opts.sigma_clip /\ opts.bgsub
    /\ \E q \in Rejected(1) : At(image_list[1].data, q) = 1000

\* the unmasked pixels of channel c of exposure k
Unmasked(k, c) ==
    LET d0 == IF image_list[k].ndim = 3 THEN FittedData(k)
              ELSE image_list[k].data
    IN  {u \in Idx(d0) \ Excluded(k) : u[1] = c}

\* the array d with the value v put at every pixel of the set M
Overwritten(d, M, v) ==
    [c \in 1..NChan(d) |-> [y \in 1..NY(d) |-> [x \in 1..NX(d) |->
        IF <<c, y, x>> \in M THEN v ELSE d[c][y][x]]]]

\* C25: with background subtraction on, every unmasked pixel of a channel of
\* a cube has the median of the unmasked pixels of that same channel
\* subtracted,
\* whatever the other channels and the masked pixels hold; the median of the
\* unmasked pixels of every channel is 0 afterwards, and the exposure is
\* accumulated with these values.
C25_ChannelMedianRemoved ==
    [][(Accumulated /\ opts.bgsub) =>
          LET k   == loop_i + 1
              w   == Weighting(opts, Len(image_list))[k]
              ex  == Excluded(k)
              d0  == FittedData(k)
              sub == Bgsub(d0, ex)
              alt == Bgsub(Overwritten(d0, ex, 500), ex)
          IN  /\ \A c \in 1..NChan(d0) :
                     LET U == Unmasked(k, c)
                     IN  (U # {}) =>
                             /\ Median2(U, sub) = 0
                             /\ \A u \in U :
                                    2 * (At(d0, u) - At(sub, u))
                                        = Median2(U, d0)
                             /\ \A u \in U : At(alt, u) = At(sub, u)
              /\ \A p \in Idx(data_combined) :
                     (Covers(k, p[2], p[3]) /\ SourcePixel(k, p) \notin ex) =>
                         At(data_combined', p) =
                             Add(At(data_combined, p),
                                 Num(w * At(sub, SourcePixel(k, p))))]_vars

\* a cube with a flagged pixel was accumulated with the background
\* subtracted; the flagged pixel would have moved the median of its channel,
\* and the channels have medians of their own
C25_Witness ==
    /\ mode = "dc" /\ pc = "dc_loop" /\ loop_i >= 1
    /\ opts.bgsub /\ ~opts.sigma_clip
    /\ Flagged(1) # {}
    /\ LET d0 == FittedData(1)
       IN  /\ Median2(Unmasked(1, 1), d0)
                  # Median2({u \in Idx(d0) : u[1] = 1}, d0)
           /\ Median2(Unmasked(1, 1), d0) # Median2(Unmasked(1, 2), d0)

\* the cells next to p inside the array, p itself left out
NeighboursOf(p) ==
    {q \in FillCells(fill_entry.mask) :
        /\ q # p
        /\ Abs(q[1] - p[1]) <= 1
        /\ Abs(q[2] - p[2]) <= 1}

\* C26: a masked cell whose neighbours inside the array are all unmasked is
\* returned as the median of the input values of exactly these neighbours
\* (the mean of the two middle values when their number is even), its own
\* input value taking no part; in the interior, on an edge, in a corner.
C26_MedianOfNeighbours ==
    (mode = "fill" /\ pc = "fm_returned") =>
        \A p \in FillCells(fill_entry.mask) :
            LET N == NeighboursOf(p)
                n == Cardinality(N)
            IN  (/\ fill_entry.mask[p[1]][p[2]] = 1
                 /\ N # {}
                 /\ \A q \in N : fill_entry.mask[q[1]][q[2]] = 0) =>
                    /\ ~image_filled[p[1]][p[2]].nan
                    /\ 2 * image_filled[p[1]][p[2]].v =
                           KthCell(N, fill_entry.image, (n + 1) \div 2)
                             + KthCell(N, fill_entry.image, n \div 2 + 1)

\* the cell in the middle of three by three was masked, with a corner cell
\* that has no masked neighbour either, and the call returned
C26_Witness ==
    /\ mode = "fill" /\ pc = "fm_returned"
    /\ Len(fill_entry.mask) = 3
    /\ fill_entry.mask[2][2] = 1
    /\ fill_entry.mask[3][3] = 0
    /\ fill_entry.mask[1][2] = 0
    /\ Cardinality({p \in FillCells(fill_entry.mask) :
                       fill_entry.mask[p[1]][p[2]] = 1}) = 1

\* a masked corner cell and a masked edge cell, no neighbour of either masked
C26_WitnessEdge ==
    /\ mode = "fill" /\ pc = "fm_returned"
    /\ fill_entry.mask = <<<<1, 0, 0>>, <<0, 0, 0>>, <<0, 0, 1>>>>

\* the unmasked cells of the input that hold a value
Sources ==
    {q \in FillCells(fill_entry.mask) :
        /\ fill_entry.mask[q[1]][q[2]] = 0
        /\ ~fill_entry.image[q[1]][q[2]].nan}

FillRunning == mode = "fill" /\ pc \in {"fm_loop", "fm_spinning", "fm_returned"}

\* C29: at every pass of fill_mask and when it has returned, the value a
\* masked cell holds lies between the smallest and the largest of the
\* unmasked input values, and a cell that holds a value after one pass
\* holds a value after the next.
C29_WithinRangeAndKept ==
    /\ [](FillRunning =>
            \A p \in FillCells(image_filled) :
                (fill_entry.mask[p[1]][p[2]] = 1
                    /\ ~image_filled[p[1]][p[2]].nan) =>
                    /\ \E q \in Sources :
                           fill_entry.image[q[1]][q[2]].v
                               <= image_filled[p[1]][p[2]].v
                    /\ \E q \in Sources :
                           fill_entry.image[q[1]][q[2]].v
                               >= image_filled[p[1]][p[2]].v)
    /\ [][(mode = "fill" /\ pc = "fm_loop") =>
            \A p \in FillCells(image_filled) :
                (~image_filled[p[1]][p[2]].nan) =>
                    ~image_filled'[p[1]][p[2]].nan]_vars

\* between two passes: a masked cell holds a value that is the mean of two
\* others, and another cell is still to be resolved
C29_Witness ==
    /\ mode = "fill" /\ pc = "fm_loop"
    /\ NanCells(image_filled) # {}
    /\ \E p \in FillCells(image_filled) :
           /\ fill_entry.mask[p[1]][p[2]] = 1
           /\ ~image_filled[p[1]][p[2]].nan
           /\ image_filled[p[1]][p[2]].v % FillUnit # 0

----------------------------------------------------------------------------
(* Properties of quick_combine *)

\* the exposures of OB directory k that the excludes list does not name
KeptOf(k) ==
    SelectSeq(obs_dirs[k].exp_list,
              LAMBDA a : ~(excludes.given /\ a \in excludes.v))

\* C27: no exposure named in the excludes list is handed to the offset
\* estimation or to data_combine of its OB, and the exposure time recorded
\* for an OB is its exposure time per exposure times the number of its
\* exposures that were not excluded.
C27_ExcludedLeftOut ==
    (mode = "quick") =>
        /\ \A j \in 1..Len(ob_calls) :
               (ob_calls[j].kind = "ob" /\ excludes.given) =>
                   /\ \A e \in 1..Len(ob_calls[j].offset_images) :
                          ob_calls[j].offset_images[e] \notin excludes.v
                   /\ \A e \in 1..Len(ob_calls[j].combine_images) :
                          ob_calls[j].combine_images[e] \notin excludes.v
        /\ \A j \in 1..Len(ob_image_list) :
               image_exp_list[j] =
                   obs_dirs[ob_image_list[j]].ob_exptime
                       * Len(KeptOf(ob_image_list[j]))

----------------------------------------------------------------------------
(* The scale of the product of data_combine *)

\* the exposures are one and the same, unmasked, unshifted, and taken as
\* they are: no clipping, no background subtraction, no weights given
IdenticalPlain ==
    /\ opts.weighting = "none" /\ ~opts.sigma_clip /\ ~opts.bgsub
    /\ ~pixel_shifts.given
    /\ \A k \in 1..Len(image_list) :
           /\ image_list[k] = image_list[1]
           /\ MaskedSet(image_list[k].mask) = {}

\* C28: for N identical, unshifted, unmasked exposures and the default
\* weights the product holds, at every pixel the exposures cover, the value
\* the exposures have there (epsilon aside), whatever N is.
C28_MeanOfIdentical ==
    (DcDivided /\ IdenticalPlain) =>
        \A p \in Idx(data_combined) :
            Covers(1, p[2], p[3]) =>
                /\ ~At(data_combined, p).nan
                /\ At(data_combined, p).num =
                       At(image_list[1].data, SourcePixel(1, p))
                           * WUnit * At(data_combined, p).cov

----------------------------------------------------------------------------
(* Properties of run_eris_pipeline *)

\* C30: every call of the jitter recipe for an OB is given the calibration
\* pool get_daily_calib returned for that OB, the pool of the OB's own
\* date, band, spaxel and exposure time; an OB for which get_daily_calib
\* failed has no run with a pool obtained for an OB before it.
C30_OwnCalibPool ==
    (mode = "pipeline") =>
        \A j \in 1..Len(jitter_runs) :
            LET r == jitter_runs[j]
            IN  /\ calib_returned[r.ob].given
                /\ r.calib_pool = calib_returned[r.ob].v
                /\ r.calib_pool = archive_dir(ob_queue[r.ob])

====
